---- MODULE Spec2Model ----
(***************************************************************************)
(* flashPTP client side: one client::Server with its sequence store, reach *)
(* register, filter and calculation, the server worker thread, a thread    *)
(* that dispatches received responses to Server::processMessage, the       *)
(* selection and the PID controller driven by the client mode worker.      *)
(*                                                                         *)
(* Numbers: offsets and delays are nanoseconds; frequency ratios (drift,   *)
(* frequency addend, frequency aggregate, kernel frequency) are kept as    *)
(* integers in parts per billion, the gains kp, ki, kd as fractions.       *)
(***************************************************************************)
EXTENDS Integers, Sequences, FiniteSets, TLC

\* ---------------------------------------------------------------- bounds
\* highest sequence id the worker sends before it only sleeps
MaxSeqID == 1
\* msTimeout of the server in whole ticks of one second (0: below a second)
MsTimeout == 0
\* reach scenario: number of sequences, and of runs of completions or timeouts
MaxReachEvents == 32
MaxPhases == 2
\* Servers of the client mode, Listeners of the server mode
MaxWorkers == 2
\* time (ms) up to which the time spent in transmitTimestamp is counted
MaxElapsed == 300
\* messages of earlier transmissions left in the error queue of a socket
MaxStale == 1
\* timestamps T1..T4 of a Sequence are 1..MaxTime (nanoseconds; 0 is empty)
MaxTime == 4
\* sequences handed to a Calculation on its own
MaxInserts == 5
\* Request objects the server mode creates
MaxRequests == 2
\* hand-overs of one datagram between the modes that are counted
MaxHops == 3

\* ------------------------------------------------------ program constants
initializing == 0
unreachable == 1
collecting == 2
ready == 3
falseticker == 4
candidate == 5
selected == 6

\* width of uint16_t _reach
ReachBits == 16
ReachMod == 2 ^ ReachBits
\* FLASH_PTP_CLIENT_MODE_SERVER_OFFSET_HISTORY_SIZE
HistorySize == 16
\* INT64_MAX marks "no value" in the offset history and in stdDev; it is only
\* compared for equality and order, the largest integer of the checker stands
\* for it
INT64_MAX == 2147483647
\* FLASH_PTP_ADJUSTMENT_FREQ_LIMIT (32768000 in 2^-16 ppm) in parts per billion
FreqLimit == 500000
\* FLASH_PTP_DEFAULT_SELECTION_DELAY_THRESHOLD (ns)
DefaultDelayThreshold == 1500000000
\* FLASH_PTP_DEFAULT_SELECTION_PICK
SelectionPick == 1
\* enum class PTPTimestampLevel
lvInvalid == 0
lvUser == 1
lvSocket == 2
lvHardware == 3
\* timeout (ms) of the poll in Socket::transmitTimestamp
PollTimeout == 100
\* FLASH_PTP_DEFAULT_TIMEOUT_MS, in seconds
RequestTimeout == 2
\* clockid_t values
CLOCK_REALTIME == 0
NoClock == 0 - 1

\* ------------------------------------------------------------ input sets
\* offsets (ns) a complete exchange can measure
Offsets == {0, 10}
\* mean path delays (ns) a complete exchange can measure
Delays == {2}

\* kp = KpNum / KpDen (FLASH_PTP_PID_CONTROLLER_P_RATIO_DEFAULT 0.2)
KpNum == 1
KpDen == 5
\* ki = cfg.kiNum / KiDen (FLASH_PTP_PID_CONTROLLER_I_RATIO_DEFAULT 0.05)
KiDen == 20
\* kd = cfg.kdNum / KdDen
KdDen == 2

\* Server / selection / adjustment configurations explored
\*   oneStep, syncTLV, noSelect : Server options
\*   filterSize                 : 0 = no filter, else one lucky packet filter
\*   calcSize                   : 1 = passThrough, else arithmeticMean
\*   delayThreshold             : Selection option (ns)
\*   kiNum, kdNum, stepThreshold: PID controller (stepThreshold in ns)
DefaultConfig ==
  [oneStep |-> FALSE, syncTLV |-> FALSE, noSelect |-> FALSE, filterSize |-> 0,
   filterPick |-> 1, calcSize |-> 2, delayThreshold |-> DefaultDelayThreshold,
   kiNum |-> 1, kdNum |-> 0, stepThreshold |-> 5]

Configs ==
  { [DefaultConfig EXCEPT !.oneStep = TRUE, !.syncTLV = TRUE],
    [DefaultConfig EXCEPT !.oneStep = TRUE, !.syncTLV = TRUE, !.kiNum = 0,
                          !.kdNum = 1, !.stepThreshold = 0],
    [DefaultConfig EXCEPT !.oneStep = TRUE, !.syncTLV = TRUE, !.noSelect = TRUE,
                          !.calcSize = 1],
    [DefaultConfig EXCEPT !.filterSize = 2, !.calcSize = 1, !.delayThreshold = 1] }

\* --------------------------------------------------------------- helpers
Abs(x) == IF x < 0 THEN 0 - x ELSE x

\* C integer division, truncating toward zero
CDiv(a, b) ==
  IF (a >= 0) = (b > 0) THEN Abs(a) \div Abs(b) ELSE 0 - (Abs(a) \div Abs(b))

RECURSIVE SumSeq(_)
SumSeq(s) == IF s = << >> THEN 0 ELSE Head(s) + SumSeq(Tail(s))

\* floor of the square root of a rational num/den (num >= 0, den > 0)
RECURSIVE SqrtFrom(_, _, _)
SqrtFrom(num, den, r) ==
  IF (r + 1) * (r + 1) * den > num THEN r ELSE SqrtFrom(num, den, r + 1)
\* (the singleton sets bind the values, so that each is computed once)
ISqrt(num, den) == CHOOSE y \in {SqrtFrom(n, d, 0) : n \in {num}, d \in {den}} : TRUE

RemoveAt(s, i) == [k \in 1..(Len(s) - 1) |-> IF k < i THEN s[k] ELSE s[k + 1]]

\* ------------------------------------------------------------- Sequence
\* client::Sequence: T1 is taken at the send of request id (one request per
\* second, T1 in seconds = id + 1); hasT2..hasT4 tell which response
\* timestamps were merged; off / dly are the offset and mean path delay the
\* merged timestamps yield in finish(); age counts ticks since creation
NewSequence(id) ==
  [id |-> id, t1 |-> id + 1, hasT2 |-> FALSE, hasT3 |-> FALSE, hasT4 |-> FALSE,
   off |-> 0, dly |-> 0, age |-> 0]

\* faulty variant of Sequence::timedOut: the timeout is never reached
timedOutNever(s) == s.age > MsTimeout + 1

timedOut(s) == s.age > MsTimeout

complete(s) == s.hasT2 /\ s.hasT3 /\ s.hasT4

merge(s, m) ==
  LET a == IF m.type = "sync"
           THEN [s EXCEPT !.hasT3 = s.hasT3 \/ ~m.twoStep, !.hasT4 = TRUE,
                          !.off = m.off, !.dly = m.dly]
           ELSE [s EXCEPT !.hasT3 = TRUE]
  IN IF m.tlv THEN [a EXCEPT !.hasT2 = TRUE] ELSE a

\* Sequence::finish: the sequence has left the store, its timeout no longer
\* matters
finish(s) == [s EXCEPT !.age = 0]

\* --------------------------------------------------------------- Filter
FilterInsertDrop(f, size) ==
  IF Len(f) >= size THEN SubSeq(f, Len(f) - size + 2, Len(f)) ELSE f

FilterInsert(f, s, size) == Append(FilterInsertDrop(f, size), s)

FilterFull(f, size) == Len(f) >= size

\* faulty variant of the search of LuckyPacket::filter: of the sequences with
\* the smallest |meanPathDelay| the last one is taken
LuckyIndexLast(f) ==
  CHOOSE j \in 1..Len(f) :
    /\ \A i \in 1..Len(f) : Abs(f[j].dly) <= Abs(f[i].dly)
    /\ \A i \in (j + 1)..Len(f) : Abs(f[i].dly) > Abs(f[j].dly)

\* index of the first sequence with the smallest |meanPathDelay|
LuckyIndex(f) ==
  CHOOSE j \in 1..Len(f) :
    /\ \A i \in 1..Len(f) : Abs(f[j].dly) <= Abs(f[i].dly)
    /\ \A i \in 1..(j - 1) : Abs(f[i].dly) > Abs(f[j].dly)

RECURSIVE LuckyPick(_, _)
LuckyPick(f, pick) ==
  IF pick = 0 \/ f = << >> THEN << >>
  ELSE LET j == LuckyIndex(f)
       IN <<f[j]>> \o LuckyPick(RemoveAt(f, j), pick - 1)

\* LuckyPacket::filter: the output; the filter buffer is empty afterwards
LuckyPacketFilter(f, size, pick) ==
  IF Len(f) < size THEN << >> ELSE LuckyPick(f, pick)

\* ---------------------------------------------------------- Calculation
EmptyCalc ==
  [seqs |-> << >>, level |-> "invalid", valid |-> FALSE, delay |-> 0,
   offset |-> 0, drift |-> 0, adjustment |-> FALSE,
   prevSeqValid |-> FALSE, prevSeqOffset |-> 0, prevSeqTimestamp |-> 0]

clearLocked(c) == [c EXCEPT !.prevSeqValid = FALSE, !.seqs = << >>]

CalcInsert(c, s, size) ==
  LET p == IF Len(c.seqs) > 0
           THEN [c EXCEPT !.prevSeqValid = TRUE,
                          !.prevSeqTimestamp = c.seqs[Len(c.seqs)].t1,
                          !.prevSeqOffset = c.seqs[Len(c.seqs)].off]
           ELSE c
      kept == IF Len(p.seqs) >= size
              THEN SubSeq(p.seqs, Len(p.seqs) - size + 2, Len(p.seqs))
              ELSE p.seqs
  IN [p EXCEPT !.seqs = Append(kept, s), !.level = "usr"]

CalcReset(c) ==
  [clearLocked(c) EXCEPT !.level = "invalid", !.valid = FALSE, !.delay = 0,
                         !.offset = 0, !.drift = 0, !.adjustment = FALSE]

\* faulty variant of Calculation::remove: the newest sequence is dropped
CalcRemoveNewest(c) ==
  LET r == [c EXCEPT !.prevSeqValid = FALSE,
                     !.seqs = IF Len(c.seqs) > 0 THEN SubSeq(c.seqs, 1, Len(c.seqs) - 1)
                              ELSE c.seqs]
  IN IF Len(r.seqs) = 0 THEN CalcReset(r) ELSE r

\* Calculation::remove
CalcRemove(c) ==
  LET r == [c EXCEPT !.prevSeqValid = FALSE,
                     !.seqs = IF Len(c.seqs) > 0 THEN Tail(c.seqs) ELSE c.seqs]
  IN IF Len(r.seqs) = 0 THEN CalcReset(r) ELSE r

fullyLoaded(c, size) == Len(c.seqs) >= size

hasAdjustment(c) == c.valid /\ c.adjustment

\* drift of two consecutive sequences in parts per billion
\* ((double)(offset difference in ns) / (double)(T1 difference in ns))
PairDrift(a, b) == CDiv(b.off - a.off, b.t1 - a.t1)

\* faulty variant of ArithmeticMean::calculate: every calculation asks for an
\* adjustment
ArithmeticMeanAlwaysAdjusts(c, size) ==
  IF Len(c.seqs) < 2 THEN c
  ELSE LET n == Len(c.seqs)
           dsum == SumSeq([k \in 1..n |-> c.seqs[k].dly])
           osum == SumSeq([k \in 1..n |-> c.seqs[k].off])
           rsum == SumSeq([k \in 1..(n - 1) |-> PairDrift(c.seqs[k], c.seqs[k + 1])])
       IN [c EXCEPT !.delay = CDiv(dsum, n), !.offset = CDiv(osum, n),
                    !.drift = CDiv(rsum, n - 1), !.valid = TRUE,
                    !.adjustment = TRUE]

\* ArithmeticMean::calculate
ArithmeticMeanCalculate(c, size) ==
  IF Len(c.seqs) < 2 THEN c
  ELSE LET n == Len(c.seqs)
           dsum == SumSeq([i \in 1..n |-> c.seqs[i].dly])
           osum == SumSeq([i \in 1..n |-> c.seqs[i].off])
           rsum == SumSeq([i \in 1..(n - 1) |-> PairDrift(c.seqs[i], c.seqs[i + 1])])
       IN [c EXCEPT !.delay = CDiv(dsum, n), !.offset = CDiv(osum, n),
                    !.drift = CDiv(rsum, n - 1), !.valid = TRUE,
                    !.adjustment = (n >= size)]

PassThroughCalculate(c) ==
  IF Len(c.seqs) < 1 THEN [c EXCEPT !.valid = FALSE]
  ELSE LET l == c.seqs[Len(c.seqs)]
       IN [c EXCEPT !.valid = TRUE, !.delay = l.dly, !.offset = l.off,
                    !.drift = IF c.prevSeqValid
                              THEN CDiv(l.off - c.prevSeqOffset, l.t1 - c.prevSeqTimestamp)
                              ELSE 0,
                    !.adjustment = c.prevSeqValid]

\* calcSize 1 is the passThrough calculation, any other the arithmeticMean
calculate(c, size) ==
  IF size = 1 THEN PassThroughCalculate(c) ELSE ArithmeticMeanCalculate(c, size)

\* --------------------------------------------------------------- stdDev
HistValues(h) == {i \in 1..HistorySize : h[i] # INT64_MAX}

\* the standard deviation of the cnt values of the history h with the sum sum
StdDevOf(h, cnt, sum) ==
  ISqrt(SumSeq([i \in 1..HistorySize |->
                 IF h[i] # INT64_MAX THEN (cnt * h[i] - sum) * (cnt * h[i] - sum) ELSE 0]),
        cnt * cnt * (cnt - 1))

calcStdDev(h) ==
  IF Cardinality(HistValues(h)) <= 1 THEN INT64_MAX
  ELSE CHOOSE y \in
         { StdDevOf(h, cnt, sum) :
             cnt \in {Cardinality(HistValues(h))},
             sum \in {SumSeq([i \in 1..HistorySize |-> IF h[i] # INT64_MAX THEN h[i] ELSE 0])} } :
         TRUE

HistPut(h, idx, v) == [h EXCEPT ![idx + 1] = v]
HistNext(idx) == IF idx + 1 = HistorySize THEN 0 ELSE idx + 1

\* faulty variant of the reach shift: the register is wider than 16 bits
ShiftWide(r, bit) == (r * 2) + bit

\* ------------------------------------------------- Server (client side)
\* reach <<= 1 on the uint16_t register
ShiftReach(r, bit) == ((r * 2) % ReachMod) + bit

\* faulty variant of onSequenceTimeout: reach 0 resets the calculation but
\* leaves the state as it was
TimeoutKeepsState(S, c, config, r, h) ==
  [srv |-> [S EXCEPT !.reach = r,
                     !.filt = IF config.filterSize > 0 /\ (r % 16) = 0 THEN << >> ELSE S.filt,
                     !.stdDevHistory = h,
                     !.stdDevIndex = HistNext(S.stdDevIndex),
                     !.stdDev = calcStdDev(h)],
   calc |-> IF config.filterSize > 0 /\ (r % 16) = 0 /\ S.filt # << >>
            THEN (IF r = 0 THEN CalcReset(c) ELSE c)
            ELSE CalcRemove(IF r = 0 THEN CalcReset(c) ELSE c)]

\* Server::onSequenceTimeout, called with the Server's mutex held
\* S: the members guarded by Server::_mutex, c: the calculation; r is reach
\* after the shift, h the offset history after the entry
TimeoutWith(S, c, config, r, h) ==
  [srv |-> [S EXCEPT !.reach = r,
                     !.state = IF r = 0 THEN unreachable ELSE S.state,
                     !.filt = IF config.filterSize > 0 /\ (r % 16) = 0 THEN << >> ELSE S.filt,
                     !.stdDevHistory = h,
                     !.stdDevIndex = HistNext(S.stdDevIndex),
                     !.stdDev = calcStdDev(h)],
   calc |-> IF config.filterSize > 0 /\ (r % 16) = 0 /\ S.filt # << >>
            THEN (IF r = 0 THEN CalcReset(c) ELSE c)
            ELSE CalcRemove(IF r = 0 THEN CalcReset(c) ELSE c)]

\* faulty variant of onSequenceTimeout: reach is shifted twice
onSequenceTimeoutTwice(S, c, seq, config) ==
  CHOOSE y \in
    { TimeoutWith(s, k, config, r, h) :
        s \in {S}, k \in {c}, r \in {ShiftReach(ShiftReach(S.reach, 0), 0)},
        h \in {HistPut(S.stdDevHistory, S.stdDevIndex, INT64_MAX)} } : TRUE

onSequenceTimeout(S, c, seq, config) ==
  CHOOSE y \in
    { TimeoutWith(s, k, config, r, h) :
        s \in {S}, k \in {c}, r \in {ShiftReach(S.reach, 0)},
        h \in {HistPut(S.stdDevHistory, S.stdDevIndex, INT64_MAX)} } : TRUE

\* Server::checkSequenceTimeouts: every timed out sequence of the store is
\* erased and handed to onSequenceTimeout, in store order
RECURSIVE SweepFrom(_, _, _, _)
SweepFrom(S, c, i, config) ==
  IF i > Len(S.sequences) THEN [srv |-> S, calc |-> c]
  ELSE IF ~timedOut(S.sequences[i]) THEN SweepFrom(S, c, i + 1, config)
  ELSE CHOOSE y \in
         { SweepFrom(t.srv, t.calc, i, config) :
             t \in {onSequenceTimeout([S EXCEPT !.sequences = RemoveAt(S.sequences, i)],
                                      c, S.sequences[i], config)} } : TRUE

checkSequenceTimeouts(S, c, config) == SweepFrom(S, c, 1, config)

\* Server::resetState, the part under the Server's mutex
resetStateLocked(S) ==
  [S EXCEPT !.state = initializing, !.reach = 0, !.sequences = << >>,
            !.stdDevHistory = [i \in 1..HistorySize |-> INT64_MAX],
            !.stdDevIndex = 0, !.stdDev = INT64_MAX]

\* index of the first stored sequence with the sequence id, 0 if none
FindSequence(S, id) ==
  IF \E i \in 1..Len(S.sequences) : S.sequences[i].id = id
  THEN CHOOSE i \in 1..Len(S.sequences) :
         /\ S.sequences[i].id = id
         /\ \A k \in 1..(i - 1) : S.sequences[k].id # id
  ELSE 0

\* the filter loop of Server::onSequenceComplete for the configured filter:
\* the filter buffer afterwards and the sequences handed on to the calculation
FilterStage(f, seq, config) ==
  IF config.filterSize = 0 THEN [filt |-> f, out |-> <<seq>>]
  ELSE LET g == FilterInsert(f, seq, config.filterSize)
       IN IF FilterFull(g, config.filterSize)
          THEN [filt |-> << >>,
                out |-> LuckyPacketFilter(g, config.filterSize, config.filterPick)]
          ELSE [filt |-> g, out |-> << >>]

RECURSIVE InsertAll(_, _, _)
InsertAll(c, seqs, size) ==
  IF seqs = << >> THEN c ELSE InsertAll(CalcInsert(c, Head(seqs), size), Tail(seqs), size)

RECURSIVE HistoryAll(_, _)
HistoryAll(S, seqs) ==
  IF seqs = << >> THEN S
  ELSE HistoryAll([S EXCEPT !.stdDevHistory = HistPut(S.stdDevHistory, S.stdDevIndex, Head(seqs).off),
                            !.stdDevIndex = HistNext(S.stdDevIndex)], Tail(seqs))

\* faulty variant of the state update: Ready without a look at the window
StateReadyAtOnce(st, loaded) == IF st < ready THEN ready ELSE st

\* the state update at the end of Server::onSequenceComplete
StateAfterComplete(st, loaded) ==
  IF loaded THEN (IF st < ready THEN ready ELSE st)
  ELSE (IF st < collecting THEN collecting ELSE st)

\* Server::onSequenceComplete as a whole, called with the Server's mutex
\* held: h is the server after the reach shift, the filters and the history
\* entries, out what the filters handed on, c2 the calculation afterwards
CompleteWith(h, c, out, c2, config) ==
  IF out = << >> THEN [srv |-> h, calc |-> c]
  ELSE [srv |-> [h EXCEPT !.stdDev = calcStdDev(h.stdDevHistory),
                          !.state = StateAfterComplete(@, fullyLoaded(c2, config.calcSize))],
        calc |-> c2]

onSequenceComplete(S, c, seq, config) ==
  CHOOSE y \in
    { CompleteWith(HistoryAll([S EXCEPT !.reach = ShiftReach(@, 1), !.filt = f.filt], f.out),
                   c, f.out,
                   calculate(InsertAll(c, f.out, config.calcSize), config.calcSize),
                   config) :
        f \in {FilterStage(S.filt, seq, config)} } : TRUE

\* ----------------------------------------------------------------- state
VARIABLES
  cfg,        \* the configuration in use
  srv,        \* members of client::Server guarded by Server::_mutex
  calc,       \* the Server's calculation (guarded by Calculation::_mutex)
  mutex,      \* exclusive holder of Server::_mutex, "free" if none
  worker,     \* the Server's worker thread (Server::threadFunc)
  net,        \* responses in flight
  rx,         \* per receiving thread: position in Server::processMessage
  client,     \* the client mode worker thread (ClientMode::threadFunc)
  pid,        \* the PID controller and the clock it adjusts
  hv,         \* history: ids whose send failed, adjustment failures
  smode,      \* server mode: the request in ServerMode::processRequest
  thr,        \* the Thread objects: running flags, positions, start and join order
  sock,       \* a Socket inside transmitTimestamp
  fn          \* arguments and results of the operations applied on their own

\* the client side of one Server
clientVars == <<cfg, srv, calc, mutex, worker, net, rx, client, pid, hv>>
\* the components that take no part in the client side's steps
others == <<smode, thr, sock, fn>>
\* all but one of them
notSmode == <<clientVars, thr, sock, fn>>
notThr == <<clientVars, smode, sock, fn>>
notSock == <<clientVars, smode, thr, fn>>
notFn == <<clientVars, smode, thr, sock>>

vars == <<clientVars, others>>

\* the threads that receive responses: a server mode listener forwards them
\* to the client mode at any time; the client mode worker receiving one in
\* network::recv is the case of the listener acting while that worker waits
RxThreads == {"listener"}

IdleRx == [pc |-> "idle"]

InitSrv ==
  [state |-> initializing, reach |-> 0, sequences |-> << >>, filt |-> << >>,
   stdDevHistory |-> [i \in 1..HistorySize |-> IF i = 1 THEN INT64_MAX ELSE 0],
   stdDevIndex |-> 0, stdDev |-> INT64_MAX]

\* the PID controller's members, the kernel frequency of the adjusted clock
\* (kfreq) and, of the adjust() call in progress or last made: the mean offset
\* and drift it read, the frequency it read, the _freqAddend it found, the
\* time steps it issued and the last frequency it set
InitPid ==
  [clockID |-> NoClock, freqAddend |-> 0, freqAggregate |-> 0, timeAddend |-> 0,
   proportional |-> 0, differential |-> 0, kfreq |-> 0,
   meanOffset |-> 0, meanDrift |-> 0, readFreq |-> 0, prevAddend |-> 0,
   stepCalls |-> 0, lastStep |-> 0, freqCalls |-> 0]

InitHv == [txFailed |-> {}, fresh |-> FALSE, fail |-> "no"]

\* the Thread objects of the process: the two modes, started by
\* FlashPTP::start, and the workers each mode starts in its threadFunc
Modes == << <<"clientMode", 0>>, <<"serverMode", 0>> >>
Kids(m) ==
  IF m[1] = "clientMode" THEN [i \in 1..MaxWorkers |-> <<"server", i>>]
  ELSE [i \in 1..MaxWorkers |-> <<"listener", i>>]
ThreadNames == {Modes[i] : i \in 1..2} \cup {Kids(Modes[i])[k] : i \in 1..2, k \in 1..MaxWorkers}
\* no thread started: _running false, _thread null
NoThreads ==
  [main |-> [pc |-> "start", i |-> 1],
   running |-> [t \in ThreadNames |-> FALSE],
   pc |-> [t \in ThreadNames |-> "off"],
   idx |-> [t \in ThreadNames |-> 1],
   created |-> << >>,
   joined |-> << >>]

\* a Socket with no transmitTimestamp call in progress
IdleSocket == [pc |-> "idle", requested |-> lvInvalid, desired |-> lvInvalid,
               hw |-> FALSE, stale |-> 0,
               err |-> FALSE, elapsed |-> 0, level |-> lvInvalid]
\* no operation applied
NoCall == [op |-> "none"]

\* server mode with no request in processRequest and nothing sent
NoMessage == [sent |-> FALSE, tlv |-> FALSE, utc |-> FALSE, error |-> FALSE]
NoRequest == [oneStep |-> FALSE, syncTLV |-> FALSE, level |-> 0, seqID |-> 0, listener |-> FALSE]
IdleServerMode == [pc |-> "idle", req |-> NoRequest, achieved |-> 0, sync |-> NoMessage, fu |-> NoMessage]

Init ==
  /\ cfg \in Configs
  /\ srv = InitSrv
  /\ calc = EmptyCalc
  /\ mutex = "free"
  /\ worker = [pc |-> "off", running |-> FALSE, sequenceID |-> 0, sweepDue |-> FALSE]
  /\ net = [inflight |-> {}]
  /\ rx = [t \in RxThreads |-> IdleRx]
  /\ client = [pc |-> "start", running |-> TRUE, secDue |-> TRUE, sel |-> << >>]
  /\ pid = InitPid
  /\ hv = InitHv
  /\ smode = IdleServerMode
  /\ thr = NoThreads
  /\ sock = IdleSocket
  /\ fn = NoCall

\* --------------------------------------------------------------- network
\* the messages the remote flashPTP server answers request id with
Responses(config, id, off, dly) ==
  IF config.oneStep
  THEN { [id |-> id, type |-> "sync", twoStep |-> FALSE, tlv |-> config.syncTLV,
          off |-> off, dly |-> dly] }
  ELSE { [id |-> id, type |-> "sync", twoStep |-> TRUE, tlv |-> config.syncTLV,
          off |-> off, dly |-> dly],
         [id |-> id, type |-> "followUp", twoStep |-> FALSE, tlv |-> ~config.syncTLV,
          off |-> off, dly |-> dly] }

\* the request id is complete on the wire: the remote server answers; the
\* responses stay in flight until a thread receives them (or for ever)
Answered(id) ==
  \E off \in Offsets, dly \in Delays :
    net' = [net EXCEPT !.inflight = @ \cup Responses(cfg, id, off, dly)]

\* ------------------------------------------------------------------ time
\* time passes: every stored sequence ages, both once-per-second checks
\* become due
Tick ==
  /\ srv' = [srv EXCEPT !.sequences =
               [i \in 1..Len(@) |-> [@[i] EXCEPT !.age = IF @ > MsTimeout THEN @ ELSE @ + 1]]]
  /\ worker' = [worker EXCEPT !.sweepDue = TRUE]
  /\ client' = [client EXCEPT !.secDue = TRUE]
  /\ UNCHANGED <<others, cfg, calc, mutex, net, rx, pid, hv>>

\* --------------------------------------------------------- server worker
\* Server::threadFunc: resetState() before the loop; the calculation is reset
\* before the Server's mutex is taken
WorkerResetCalc ==
  /\ worker.pc = "reset1"
  /\ calc' = CalcReset(calc)
  /\ worker' = [worker EXCEPT !.pc = "reset2"]
  /\ UNCHANGED <<others, cfg, srv, mutex, net, rx, client, pid, hv>>

\* Server::resetState under the mutex, before the loop and after it
WorkerResetState ==
  /\ worker.pc \in {"reset2", "stop2"}
  /\ mutex = "free"
  /\ srv' = resetStateLocked(srv)
  /\ worker' = [worker EXCEPT !.pc = IF @ = "reset2" THEN "top" ELSE "done"]
  /\ UNCHANGED <<others, cfg, calc, mutex, net, rx, client, pid, hv>>

\* the loop ends when the thread was stopped: resetState(), calculation first
WorkerStop ==
  /\ worker.pc = "top"
  /\ ~worker.running
  /\ calc' = CalcReset(calc)
  /\ worker' = [worker EXCEPT !.pc = "stop2"]
  /\ UNCHANGED <<others, cfg, srv, mutex, net, rx, client, pid, hv>>

\* the second has changed: Server::checkSequenceTimeouts
WorkerSweep ==
  /\ worker.pc = "top"
  /\ worker.running
  /\ worker.sweepDue
  /\ mutex = "free"
  /\ \E r \in {checkSequenceTimeouts(srv, calc, cfg)} :
       /\ srv' = r.srv
       /\ calc' = r.calc
  /\ worker' = [worker EXCEPT !.sweepDue = FALSE]
  /\ UNCHANGED <<others, cfg, mutex, net, rx, client, pid, hv>>

\* faulty variant of the Sync transmission: the sequence is recorded whether
\* or not network::send succeeded
SendSyncRecordsAlways ==
  /\ worker.pc = "top"
  /\ worker.running
  /\ ~worker.sweepDue
  /\ worker.sequenceID <= MaxSeqID
  /\ \E ok \in BOOLEAN :
       /\ worker' = [worker EXCEPT !.pc = IF cfg.oneStep \/ ~ok THEN "add" ELSE "followUp"]
       /\ IF cfg.oneStep /\ ok THEN Answered(worker.sequenceID) ELSE UNCHANGED net
       /\ hv' = IF ok THEN hv ELSE [hv EXCEPT !.txFailed = @ \cup {worker.sequenceID}]
  /\ UNCHANGED <<others, cfg, srv, calc, mutex, rx, client, pid>>

\* the interval has passed: network::send of the Sync; sendto() either fails
\* or puts it on the wire; one-step, network::send then waits for the
\* transmit timestamp
WorkerSendSync ==
  /\ worker.pc = "top"
  /\ worker.running
  /\ ~worker.sweepDue
  /\ worker.sequenceID <= MaxSeqID
  /\ \E ok \in BOOLEAN :
       IF ok
       THEN /\ worker' = [worker EXCEPT !.pc = IF cfg.oneStep THEN "add" ELSE "followUp"]
            /\ IF cfg.oneStep THEN Answered(worker.sequenceID) ELSE UNCHANGED net
            /\ UNCHANGED hv
       ELSE /\ worker' = [worker EXCEPT !.sequenceID = @ + 1]
            /\ hv' = [hv EXCEPT !.txFailed = @ \cup {worker.sequenceID}]
            /\ UNCHANGED net
  /\ UNCHANGED <<others, cfg, srv, calc, mutex, rx, client, pid>>

\* network::send of the Follow Up (two-step only)
WorkerSendFollowUp ==
  /\ worker.pc = "followUp"
  /\ \E ok \in BOOLEAN :
       IF ok
       THEN /\ worker' = [worker EXCEPT !.pc = "add"]
            /\ Answered(worker.sequenceID)
            /\ UNCHANGED hv
       ELSE /\ worker' = [worker EXCEPT !.pc = "top", !.sequenceID = @ + 1]
            /\ hv' = [hv EXCEPT !.txFailed = @ \cup {worker.sequenceID}]
            /\ UNCHANGED net
  /\ UNCHANGED <<others, cfg, srv, calc, mutex, rx, client, pid>>

\* Server::addSequence, once network::send has returned
addSequence(S, seq) == [S EXCEPT !.sequences = Append(@, seq)]

\* faulty variant of addSequence: the store is changed without the mutex
AddSequenceUnlocked ==
  /\ worker.pc = "add"
  /\ srv' = addSequence(srv, NewSequence(worker.sequenceID))
  /\ worker' = [worker EXCEPT !.pc = "top", !.sequenceID = @ + 1]
  /\ UNCHANGED <<others, cfg, calc, mutex, net, rx, client, pid, hv>>

WorkerAddSequence ==
  /\ worker.pc = "add"
  /\ mutex = "free"
  /\ srv' = addSequence(srv, NewSequence(worker.sequenceID))
  /\ worker' = [worker EXCEPT !.pc = "top", !.sequenceID = @ + 1]
  /\ UNCHANGED <<others, cfg, calc, mutex, net, rx, client, pid, hv>>

\* faulty variant of Server::processMessage: the timeout of the Sequence found
\* is not looked at
ProcessMessageLate(t, m) ==
  \E i \in {FindSequence(srv, m.id)} :
    /\ mutex = "free"
    /\ IF i = 0
       THEN UNCHANGED <<srv, calc, mutex, rx>>
       ELSE IF \/ m.type = "sync" /\ srv.sequences[i].hasT4
               \/ m.type = "followUp" /\ srv.sequences[i].hasT3
       THEN UNCHANGED <<srv, calc, mutex, rx>>
       ELSE \E mg \in {merge(srv.sequences[i], m)} :
              IF ~complete(mg)
              THEN /\ srv' = [srv EXCEPT !.sequences[i] = mg]
                   /\ UNCHANGED <<calc, mutex, rx>>
              ELSE \E f \in {FilterStage(srv.filt, finish(mg), cfg)} :
                   \E h \in {HistoryAll([srv EXCEPT !.sequences = RemoveAt(@, i),
                                                    !.reach = ShiftReach(@, 1),
                                                    !.filt = f.filt], f.out)} :
                     IF f.out = << >>
                     THEN /\ srv' = h
                          /\ UNCHANGED <<calc, mutex, rx>>
                     ELSE /\ srv' = [h EXCEPT !.stdDev = calcStdDev(h.stdDevHistory)]
                          /\ calc' = InsertAll(calc, f.out, cfg.calcSize)
                          /\ rx' = [rx EXCEPT ![t].pc = "calculate"]
                          /\ mutex' = t

\* ------------------------------------------- Server::processMessage (RX)
\* ClientMode::onMsgReceived hands a response to Server::processMessage on the
\* thread t that received it. The step takes the Server's mutex and runs up
\* to Calculation::insert: a complete sequence is erased from the store and
\* finished, Server::onSequenceComplete shifts reach, runs the filters, and
\* stores what they hand on in the offset history and in the calculation.
\* The mutex stays locked for calculate() and the state update
ProcessMessage(t, m) ==
  \E i \in {FindSequence(srv, m.id)} :
    /\ mutex = "free"
    /\ IF i = 0
       THEN UNCHANGED <<srv, calc, mutex, rx>>
       ELSE IF timedOut(srv.sequences[i])
       THEN \E r \in {onSequenceTimeout([srv EXCEPT !.sequences = RemoveAt(@, i)],
                                        calc, srv.sequences[i], cfg)} :
              /\ srv' = r.srv
              /\ calc' = r.calc
              /\ UNCHANGED <<mutex, rx>>
       ELSE IF \/ m.type = "sync" /\ srv.sequences[i].hasT4
               \/ m.type = "followUp" /\ srv.sequences[i].hasT3
       THEN UNCHANGED <<srv, calc, mutex, rx>>
       ELSE \E mg \in {merge(srv.sequences[i], m)} :
              IF ~complete(mg)
              THEN /\ srv' = [srv EXCEPT !.sequences[i] = mg]
                   /\ UNCHANGED <<calc, mutex, rx>>
              ELSE \E f \in {FilterStage(srv.filt, finish(mg), cfg)} :
                   \E h \in {HistoryAll([srv EXCEPT !.sequences = RemoveAt(@, i),
                                                    !.reach = ShiftReach(@, 1),
                                                    !.filt = f.filt], f.out)} :
                     IF f.out = << >>
                     THEN /\ srv' = h
                          /\ UNCHANGED <<calc, mutex, rx>>
                     ELSE /\ srv' = [h EXCEPT !.stdDev = calcStdDev(h.stdDevHistory)]
                          /\ calc' = InsertAll(calc, f.out, cfg.calcSize)
                          /\ rx' = [rx EXCEPT ![t].pc = "calculate"]
                          /\ mutex' = t

\* a datagram is received on the thread t; client mode drops it unless running
RxReceive(t) ==
  /\ rx[t].pc = "idle"
  /\ \E m \in net.inflight :
       /\ net' = [net EXCEPT !.inflight = @ \ {m}]
       /\ IF client.running
          THEN ProcessMessage(t, m)
          ELSE UNCHANGED <<srv, calc, mutex, rx>>
  /\ UNCHANGED <<others, cfg, worker, client, pid, hv>>

\* Server::onSequenceComplete: Calculation::calculate
RxCalculate(t) ==
  /\ rx[t].pc = "calculate"
  /\ mutex = t
  /\ calc' = calculate(calc, cfg.calcSize)
  /\ rx' = [rx EXCEPT ![t].pc = "state"]
  /\ hv' = [hv EXCEPT !.fresh = TRUE]
  /\ UNCHANGED <<others, cfg, srv, mutex, worker, net, client, pid>>

\* faulty variant of the end of Server::onSequenceComplete: the state is left
\* as it is
RxStateKeeps(t) ==
  /\ rx[t].pc = "state"
  /\ mutex = t
  /\ rx' = [rx EXCEPT ![t] = IdleRx]
  /\ mutex' = "free"
  /\ UNCHANGED <<others, cfg, srv, calc, worker, net, client, pid, hv>>

\* Server::onSequenceComplete: the state follows fullyLoaded(); unlock
RxState(t) ==
  /\ rx[t].pc = "state"
  /\ mutex = t
  /\ srv' = [srv EXCEPT !.state = StateAfterComplete(@, fullyLoaded(calc, cfg.calcSize))]
  /\ rx' = [rx EXCEPT ![t] = IdleRx]
  /\ mutex' = "free"
  /\ UNCHANGED <<others, cfg, calc, worker, net, client, pid, hv>>

\* ------------------------------------------------------ client mode worker
\* Server::clockID(): follows the calculation's timestamp level
clockID(c) == IF c.level = "invalid" THEN NoClock ELSE CLOCK_REALTIME

\* back in ClientMode::threadFunc with an empty selection, a failed or a
\* finalized adjustment: once per second resetUnusedServersStates, then
\* network::recv (receiving is the listener's step) and the next iteration
Continue(c) ==
  [c EXCEPT !.pc = IF c.secDue THEN "resetUnused" ELSE "top",
            !.secDue = FALSE, !.sel = << >>]

\* ClientMode::threadFunc starts the server worker before its loop
ClientStart ==
  /\ client.pc = "start"
  /\ client' = [client EXCEPT !.pc = "top"]
  /\ worker' = [worker EXCEPT !.pc = "reset1", !.running = TRUE]
  /\ UNCHANGED <<others, cfg, srv, calc, mutex, net, rx, pid, hv>>

\* Thread::stop of the client mode was requested: the loop ends where it
\* reads _running, and the server worker is stopped (Thread::stop)
ClientStopServers ==
  /\ client.pc = "top"
  /\ client.running
  /\ client' = [client EXCEPT !.pc = "join", !.running = FALSE]
  /\ worker' = [worker EXCEPT !.running = FALSE]
  /\ UNCHANGED <<others, cfg, srv, calc, mutex, net, rx, pid, hv>>

\* Thread::stop of the server worker returns when the worker has left
ClientJoin ==
  /\ client.pc = "join"
  /\ worker.pc = "done"
  /\ client' = [client EXCEPT !.pc = "done"]
  /\ UNCHANGED <<others, cfg, srv, calc, mutex, worker, net, rx, pid, hv>>

\* performAdjustments: Adjustment::prepare, then Selection::preprocess, first
\* loop: state(), clockID(), noSelect(), delay() of the server
SelRead ==
  /\ client.pc = "top"
  /\ client.running
  /\ mutex = "free"
  /\ pid' = [pid EXCEPT !.clockID = CLOCK_REALTIME]
  /\ hv' = [hv EXCEPT !.fail = IF @ = "this" THEN "prev" ELSE "no"]
  /\ client' =
       IF srv.state < ready \/ clockID(calc) # CLOCK_REALTIME THEN Continue(client)
       ELSE IF cfg.noSelect \/ Abs(calc.delay) > cfg.delayThreshold
       THEN [client EXCEPT !.pc = "selFalse"]
       ELSE [client EXCEPT !.pc = "selHasAdj"]
  /\ UNCHANGED <<others, cfg, srv, calc, mutex, worker, net, rx>>

\* Selection::preprocess: setState(falseticker) of a server that is skipped
\* (one that exceeds the delay threshold only if it is not a falseticker yet)
SelFalseticker ==
  /\ client.pc = "selFalse"
  /\ mutex = "free"
  /\ srv' = IF cfg.noSelect \/ srv.state # falseticker
            THEN [srv EXCEPT !.state = falseticker] ELSE srv
  /\ client' = Continue(client)
  /\ UNCHANGED <<others, cfg, calc, mutex, worker, net, rx, pid, hv>>

\* Selection::preprocess, second loop: hasAdjustment() of the pre-selected
SelHasAdjustment ==
  /\ client.pc = "selHasAdj"
  /\ client' = IF hasAdjustment(calc) THEN [client EXCEPT !.pc = "selReady"]
               ELSE Continue(client)
  /\ UNCHANGED <<others, cfg, srv, calc, mutex, worker, net, rx, pid, hv>>

\* Selection::preprocess, third loop: setState(ready)
SelReady ==
  /\ client.pc = "selReady"
  /\ mutex = "free"
  /\ srv' = [srv EXCEPT !.state = ready]
  /\ client' = [client EXCEPT !.pc = "selTrue"]
  /\ UNCHANGED <<others, cfg, calc, mutex, worker, net, rx, pid, hv>>

\* Selection::detectTruechimers with at most two servers: all are truechimers
SelTruechimers ==
  /\ client.pc = "selTrue"
  /\ mutex = "free"
  /\ srv' = [srv EXCEPT !.state = candidate]
  /\ client' = [client EXCEPT !.pc = "selStdDev"]
  /\ UNCHANGED <<others, cfg, calc, mutex, worker, net, rx, pid, hv>>

\* StdDev::select: the servers picked from the truechimers p by stdDev()
StdDevPick(p, sd) == IF p = << >> \/ sd = INT64_MAX \/ SelectionPick < 1 THEN << >> ELSE p

SelStdDev ==
  /\ client.pc = "selStdDev"
  /\ mutex = "free"
  /\ LET r == StdDevPick(<<1>>, srv.stdDev)
     IN client' = IF r = << >> THEN Continue(client)
                  ELSE [client EXCEPT !.pc = "selPost", !.sel = r]
  /\ UNCHANGED <<others, cfg, srv, calc, mutex, worker, net, rx, pid, hv>>

\* faulty variant of postprocess: the returned server is marked a falseticker
postprocessFalse(st) == falseticker

\* Selection::postprocess: the state every returned server is given
postprocess(st) == selected

\* postprocess of the picked server; StdDev::select returns
SelPost ==
  /\ client.pc = "selPost"
  /\ mutex = "free"
  /\ srv' = [srv EXCEPT !.state = postprocess(@)]
  /\ client' = [client EXCEPT !.pc = "adjust"]
  /\ UNCHANGED <<others, cfg, calc, mutex, worker, net, rx, pid, hv>>

\* Adjustment::initAdj at the start of PIDController::adjust
initAdj(servers, c, id) ==
  /\ id # NoClock
  /\ servers # << >>
  /\ hasAdjustment(c)
  /\ clockID(c) = id

AdjInit ==
  /\ client.pc = "adjust"
  /\ client' = IF initAdj(client.sel, calc, pid.clockID)
               THEN [client EXCEPT !.pc = "adjRead"] ELSE Continue(client)
  /\ UNCHANGED <<others, cfg, srv, calc, mutex, worker, net, rx, pid, hv>>

\* ----------------------------------------------------------- PID controller
Clamp(f) == IF Abs(f) > FreqLimit THEN (IF f < 0 THEN 0 - FreqLimit ELSE FreqLimit) ELSE f

\* does PIDController::adjust take the step branch for the mean offset
StepBranch(config, offset) == config.stepThreshold # 0 /\ Abs(offset) >= config.stepThreshold

\* faulty variant of the step branch: the proportional part is added to the
\* frequency although the offset is stepped
PidComputeSlewsToo(P, config, freq, offset, drift) ==
  LET revert == P.freqAddend - CDiv(P.freqAddend * config.kiNum, KiDen)
      base == freq - revert
      prop == CDiv(KpNum * offset, KpDen)
      diff == IF config.kdNum # 0 THEN CDiv(drift * config.kdNum, KdDen) ELSE 0
      note == [P EXCEPT !.meanOffset = offset, !.meanDrift = drift, !.readFreq = freq,
                        !.prevAddend = P.freqAddend, !.stepCalls = 0, !.freqCalls = 0]
  IN IF StepBranch(config, offset)
     THEN [note EXCEPT !.freqAggregate = base + drift + prop, !.freqAddend = prop,
                       !.timeAddend = offset]
     ELSE [note EXCEPT !.proportional = prop, !.differential = diff,
                       !.freqAddend = prop + diff,
                       !.freqAggregate = base + prop + diff, !.timeAddend = 0]

\* PIDController::adjust between the status read and the clock_adjtime calls:
\* P the controller, freq the frequency read, offset / drift the means of the
\* selected servers' calculations
PidCompute(P, config, freq, offset, drift) ==
  LET revert == P.freqAddend - CDiv(P.freqAddend * config.kiNum, KiDen)
      base == freq - revert
      prop == CDiv(KpNum * offset, KpDen)
      diff == IF config.kdNum # 0 THEN CDiv(drift * config.kdNum, KdDen) ELSE 0
      note == [P EXCEPT !.meanOffset = offset, !.meanDrift = drift, !.readFreq = freq,
                        !.prevAddend = P.freqAddend, !.stepCalls = 0, !.freqCalls = 0]
  IN IF StepBranch(config, offset)
     THEN [note EXCEPT !.freqAggregate = base + drift, !.freqAddend = 0,
                       !.timeAddend = offset]
     ELSE [note EXCEPT !.proportional = prop, !.differential = diff,
                       !.freqAddend = prop + diff,
                       !.freqAggregate = base + prop + diff, !.timeAddend = 0]

\* a clock_adjtime call of the adjustment failed: adjust returns false
AdjustFailed(h) == [h EXCEPT !.fail = "this", !.fresh = FALSE]

\* clock_adjtime reading the status, then the controller's arithmetic
AdjRead ==
  /\ client.pc = "adjRead"
  /\ \E ok \in BOOLEAN :
       IF ok
       THEN /\ pid' = PidCompute(pid, cfg, pid.kfreq, calc.offset, calc.drift)
            /\ client' = [client EXCEPT !.pc = IF pid'.timeAddend # 0 THEN "adjStep" ELSE "adjFreq"]
            /\ UNCHANGED hv
       ELSE /\ client' = Continue(client)
            /\ hv' = AdjustFailed(hv)
            /\ UNCHANGED pid
  /\ UNCHANGED <<others, cfg, srv, calc, mutex, worker, net, rx>>

\* clock_adjtime(ADJ_SETOFFSET); on failure the frequency is not written
AdjStep ==
  /\ client.pc = "adjStep"
  /\ \E ok \in BOOLEAN :
       IF ok
       THEN /\ pid' = [pid EXCEPT !.stepCalls = 1, !.lastStep = pid.timeAddend]
            /\ client' = [client EXCEPT !.pc = "adjFreq"]
            /\ UNCHANGED hv
       ELSE /\ pid' = [pid EXCEPT !.stepCalls = 1]
            /\ client' = Continue(client)
            /\ hv' = AdjustFailed(hv)
  /\ UNCHANGED <<others, cfg, srv, calc, mutex, worker, net, rx>>

\* clock_adjtime(ADJ_FREQUENCY); adjust returns rc >= 0
AdjFreq ==
  /\ client.pc = "adjFreq"
  /\ \E ok \in BOOLEAN :
       IF ok
       THEN /\ pid' = [pid EXCEPT !.kfreq = Clamp(pid.freqAggregate), !.freqCalls = 1]
            /\ client' = [client EXCEPT !.pc = "finalize1"]
            /\ UNCHANGED hv
       ELSE /\ pid' = [pid EXCEPT !.freqCalls = 1]
            /\ client' = Continue(client)
            /\ hv' = AdjustFailed(hv)
  /\ UNCHANGED <<others, cfg, srv, calc, mutex, worker, net, rx>>

\* faulty variant of Adjustment::finalize: the adjustment flag is left as it is
Finalize1Keeps ==
  /\ client.pc = "finalize1"
  /\ client' = [client EXCEPT !.pc = "finalize2"]
  /\ UNCHANGED <<others, cfg, srv, calc, mutex, worker, net, rx, pid, hv>>

\* Adjustment::finalize: setAdjustment(false)
Finalize1 ==
  /\ client.pc = "finalize1"
  /\ calc' = [calc EXCEPT !.adjustment = FALSE]
  /\ client' = [client EXCEPT !.pc = "finalize2"]
  /\ UNCHANGED <<others, cfg, srv, mutex, worker, net, rx, pid, hv>>

\* faulty variant of PIDController::finalize: also the window of a calculation
\* that keeps one sequence is cleared
PidFinalizeClearsAll(P, config) ==
  ~(config.kiNum # 0 /\ P.timeAddend = 0)

\* PIDController::finalize: the window is cleared after a step or without
\* integral part, if the calculation keeps more than one sequence
PidFinalizeClears(P, config) ==
  ~(config.kiNum # 0 /\ P.timeAddend = 0) /\ config.calcSize > 1

Finalize2 ==
  /\ client.pc = "finalize2"
  /\ calc' = IF PidFinalizeClears(pid, cfg) THEN clearLocked(calc) ELSE calc
  /\ client' = Continue(client)
  /\ UNCHANGED <<others, cfg, srv, mutex, worker, net, rx, pid, hv>>

\* ClientMode::resetUnusedServersStates: state() and clockID() of the server
ResetUnusedRead ==
  /\ client.pc = "resetUnused"
  /\ mutex = "free"
  /\ client' = [client EXCEPT !.pc = IF srv.state > ready /\ clockID(calc) # pid.clockID
                                      THEN "resetUnusedSet" ELSE "top"]
  /\ UNCHANGED <<others, cfg, srv, calc, mutex, worker, net, rx, pid, hv>>

\* ClientMode::resetUnusedServersStates: setState(ready)
ResetUnusedSet ==
  /\ client.pc = "resetUnusedSet"
  /\ mutex = "free"
  /\ srv' = [srv EXCEPT !.state = ready]
  /\ client' = [client EXCEPT !.pc = "top"]
  /\ UNCHANGED <<others, cfg, calc, mutex, worker, net, rx, pid, hv>>

\* ------------------------------------------------------- the whole program
WorkerStep ==
  \/ WorkerResetCalc
  \/ WorkerResetState
  \/ WorkerStop
  \/ WorkerSweep
  \/ WorkerSendSync
  \/ WorkerSendFollowUp
  \/ WorkerAddSequence

RxStep ==
  \E t \in RxThreads :
    \/ RxReceive(t)
    \/ RxCalculate(t)
    \/ RxState(t)

SelectStep ==
  \/ SelRead
  \/ SelFalseticker
  \/ SelHasAdjustment
  \/ SelReady
  \/ SelTruechimers
  \/ SelStdDev
  \/ SelPost

AdjustStep ==
  \/ AdjInit
  \/ AdjRead
  \/ AdjStep
  \/ AdjFreq
  \/ Finalize1
  \/ Finalize2

ClientStep ==
  \/ ClientStart
  \/ ClientStopServers
  \/ ClientJoin
  \/ SelectStep
  \/ AdjustStep
  \/ ResetUnusedRead
  \/ ResetUnusedSet

Next ==
  \/ WorkerStep
  \/ RxStep
  \/ ClientStep
  \/ Tick

Spec == Init /\ [][Next]_vars

\* ---------------------------------------------------------------- claims
StoredIDs(S) == {S.sequences[i].id : i \in 1..Len(S.sequences)}

\* a step of checkSequenceTimeouts or processMessage that hands at least one
\* timed out sequence to onSequenceTimeout: the store shrinks, the worker
\* stays where it is, the last bit shifted into reach is a 0
TimeoutRemoval ==
  /\ Len(srv'.sequences) < Len(srv.sequences)
  /\ worker'.pc = worker.pc
  /\ srv'.reach % 2 = 0

\* a step of Server::resetState under the mutex
ResetStep == worker.pc \in {"reset2", "stop2"} /\ worker'.pc # worker.pc

\* C1 as stated: whenever reach is 0 the state is Unreachable
C1_AsStated == srv.reach = 0 => srv.state = unreachable

\* C1: every timeout that leaves reach at 0 sets the state to Unreachable and
\* empties the calculation within the same critical section; resetState
\* leaves reach at 0 with the state Initializing
C1_TimeoutToUnreachable ==
  [][/\ (TimeoutRemoval /\ srv'.reach = 0)
          => (srv'.state = unreachable /\ calc'.seqs = << >> /\ ~calc'.valid)
     /\ ResetStep => (srv'.reach = 0 /\ srv'.state = initializing)]_vars

C1_Witness == srv.reach = 0 /\ srv.state = unreachable /\ worker.running

\* C2 as stated: a state of Ready or above implies a fully loaded calculation
C2_AsStated == srv.state >= ready => fullyLoaded(calc, cfg.calcSize)

\* C2: the state update of onSequenceComplete raises a state below Ready to
\* Ready exactly when the calculation is fully loaded, otherwise to at least
\* Collecting; it never lowers the state
C2_ReadyWhenLoaded ==
  [][\A t \in RxThreads : (rx[t].pc = "state" /\ rx'[t].pc = "idle") =>
        /\ srv'.state >= srv.state
        /\ srv.state < ready =>
             (srv'.state = ready <=> fullyLoaded(calc', cfg.calcSize))
        /\ srv'.state >= collecting]_vars

\* a server that is Ready or above although a timeout or the finalization of
\* an adjustment has shrunk its window
C2_Witness ==
  /\ srv.state >= ready
  /\ ~fullyLoaded(calc, cfg.calcSize)
  /\ \A t \in RxThreads : rx[t].pc = "idle"

\* the worker is done with the transmission of the request id: network::send
\* of its last message has returned and the worker has moved on; at "add" the
\* message is on the wire and the worker is between sendto() and addSequence
TxComplete(id) == id < worker.sequenceID

\* C3: a response is looked up in the store only after the TX side of its
\* sequence is complete
C3_TxBeforeRx ==
  [][\A m \in net.inflight \ net'.inflight : client.running => TxComplete(m.id)]_vars

\* C4: only a sequence whose send succeeded is added to the store (by the
\* worker, after the send); a failed send changes nothing of the server, and
\* reach is shifted only for a sequence that leaves the store
C4_RecordedAfterSend ==
  [][/\ StoredIDs(srv') \cap hv'.txFailed = {}
     /\ StoredIDs(srv') \ StoredIDs(srv) # {} =>
          /\ worker.pc = "add"
          /\ StoredIDs(srv') \ StoredIDs(srv) = {worker.sequenceID}
          /\ worker'.sequenceID = worker.sequenceID + 1
     /\ hv'.txFailed # hv.txFailed => (srv' = srv /\ calc' = calc /\ net' = net)
     /\ (srv'.reach # srv.reach /\ ~ResetStep) =>
          StoredIDs(srv) \ StoredIDs(srv') # {}]_vars

\* a send has failed, a later sequence was recorded and has shifted reach
C4_Witness == hv.txFailed # {} /\ srv.reach # 0 /\ srv.sequences = << >>

\* what Server::_mutex guards, without the age of the stored sequences
LockedFields(S) ==
  <<S.state, S.reach, S.filt, S.stdDevHistory, S.stdDevIndex, S.stdDev,
    [i \in 1..Len(S.sequences) |-> [S.sequences[i] EXCEPT !.age = 0]]>>

\* C5 as stated: from the lookup of a response to the acceptance of its
\* sequence by the calculation and the state update, no other thread changes
\* the server or its calculation
C5_AsStated ==
  [][\A t \in RxThreads : (mutex = t /\ rx'[t] = rx[t]) =>
        (LockedFields(srv') = LockedFields(srv) /\ calc' = calc)]_vars

\* C5: while a thread is inside processMessage, holding the Server's mutex,
\* no other thread changes what that mutex guards: state, reach, store,
\* filters and offset history; the store only grows by the worker's
\* addSequence with the mutex free
C5_AtomicUnderMutex ==
  [][/\ \A t \in RxThreads : (mutex = t /\ rx'[t] = rx[t]) =>
           LockedFields(srv') = LockedFields(srv)
     /\ LockedFields(srv') # LockedFields(srv) =>
           (mutex = "free" \/ \E t \in RxThreads : mutex = t /\ rx'[t] # rx[t])]_vars

\* the worker has a sequence to add while a completed sequence is between
\* Calculation::insert and the state update
C5_Witness ==
  /\ \E t \in RxThreads : mutex = t /\ rx[t].pc = "state"
  /\ worker.pc = "add"

\* the frequency PIDController::adjust starts from: the frequency read less
\* the part of the previous addend that is reverted
PidBase(P, config) ==
  P.readFreq - (P.prevAddend - CDiv(P.prevAddend * config.kiNum, KiDen))

\* PIDController::adjust has done its arithmetic for this tick
PidComputed == client.pc \in {"adjStep", "adjFreq", "finalize1"}

\* C6 as stated: a tick whose mean offset reaches the step threshold steps the
\* clock by that offset and issues no proportional slew
C6_AsStated ==
  (PidComputed /\ pid.meanOffset # 0 /\ Abs(pid.meanOffset) >= cfg.stepThreshold)
     => /\ pid.timeAddend = pid.meanOffset
        /\ pid.freqAggregate = PidBase(pid, cfg) + pid.meanDrift

\* C6: with a step threshold other than 0 and the status of the clock read, a
\* tick whose mean offset reaches the threshold issues exactly one time step,
\* by the mean offset, before the frequency; the frequency it sets is the
\* base frequency plus the mean drift, without a proportional part, and
\* _freqAddend is left at 0. Any other tick issues no time step
C6_StepTick ==
  /\ (PidComputed /\ cfg.stepThreshold # 0 /\ Abs(pid.meanOffset) >= cfg.stepThreshold)
       => /\ pid.timeAddend = pid.meanOffset
          /\ pid.freqAddend = 0
          /\ pid.freqAggregate = PidBase(pid, cfg) + pid.meanDrift
          /\ client.pc = "adjStep" => (pid.stepCalls = 0 /\ pid.freqCalls = 0)
          /\ client.pc = "adjFreq" => (pid.stepCalls = 1 /\ pid.lastStep = pid.meanOffset)
          /\ client.pc = "finalize1" =>
               (pid.stepCalls = 1 /\ pid.freqCalls = 1 /\ pid.kfreq = Clamp(pid.freqAggregate))
  /\ (PidComputed /\ ~(cfg.stepThreshold # 0 /\ Abs(pid.meanOffset) >= cfg.stepThreshold))
       => (pid.timeAddend = 0 /\ pid.stepCalls = 0 /\ client.pc # "adjStep")

\* a step tick with a drift other than 0 has stepped and set the frequency
C6_Witness ==
  /\ client.pc = "finalize1"
  /\ pid.timeAddend # 0
  /\ pid.stepCalls = 1
  /\ pid.meanDrift # 0

C8_NoRetry ==
  [][(client.pc = "adjRead" /\ client'.pc \in {"adjStep", "adjFreq"}) =>
        ~(hv.fail = "prev" /\ ~hv.fresh)]_vars

\* --------------------------------------------------------------- liveness
\* the server side on its own: the worker, the receiving threads and time,
\* started and stopped by the client mode worker. Selection and adjustment
\* are left out: they take the Server's mutex for single reads and writes of
\* the state and never hold it, so they cannot keep the worker from sweeping
LiveNext ==
  \/ WorkerStep
  \/ RxStep
  \/ Tick
  \/ ClientStart
  \/ ClientStopServers
  \/ ClientJoin

\* the threads are scheduled: the server worker and a thread inside
\* processMessage keep running, and time passes
LiveSpec ==
  /\ Init
  /\ [][LiveNext]_vars
  /\ WF_vars(WorkerStep)
  /\ WF_vars(RxStep)
  /\ WF_vars(Tick)

InitReach ==
  /\ cfg \in Configs
  /\ srv = resetStateLocked(InitSrv)
  /\ calc = EmptyCalc
  /\ mutex = "free"
  /\ worker = [pc |-> "top", running |-> TRUE, sequenceID |-> 0, sweepDue |-> FALSE]
  /\ net = [inflight |-> {}]
  /\ rx = [t \in RxThreads |-> IdleRx]
  /\ client = [pc |-> "top", running |-> TRUE, secDue |-> FALSE, sel |-> << >>]
  /\ pid = InitPid
  /\ hv = [before |-> 0, run |-> 0, phases |-> 0, last |-> "none"]
  /\ smode = IdleServerMode
  /\ thr = NoThreads
  /\ sock = IdleSocket
  /\ fn = NoCall

\* the next event is allowed by the bounds
ReachEvent(kind) ==
  /\ worker.sequenceID < MaxReachEvents
  /\ hv.last # kind => hv.phases < MaxPhases

\* the sequence is answered in time: processMessage completes it
ReachComplete ==
  /\ ReachEvent("complete")
  /\ \E dly \in Delays :
     \E r \in {onSequenceComplete(srv, calc,
                 finish([NewSequence(worker.sequenceID) EXCEPT
                           !.hasT2 = TRUE, !.hasT3 = TRUE, !.hasT4 = TRUE, !.dly = dly]),
                 cfg)} :
       /\ srv' = r.srv
       /\ calc' = r.calc
       /\ hv' = [before |-> r.srv.reach, run |-> 0, last |-> "complete",
                 phases |-> IF hv.last = "complete" THEN hv.phases ELSE hv.phases + 1]
  /\ worker' = [worker EXCEPT !.sequenceID = @ + 1]
  /\ UNCHANGED <<others, cfg, mutex, net, rx, client, pid>>

\* the sequence is not answered in time: the sweep hands it to
\* onSequenceTimeout
ReachTimeout ==
  /\ ReachEvent("timeout")
  /\ \E r \in {onSequenceTimeout(srv, calc, NewSequence(worker.sequenceID), cfg)} :
       /\ srv' = r.srv
       /\ calc' = r.calc
  /\ hv' = [hv EXCEPT !.run = @ + 1, !.last = "timeout",
                      !.phases = IF hv.last = "timeout" THEN @ ELSE @ + 1]
  /\ worker' = [worker EXCEPT !.sequenceID = @ + 1]
  /\ UNCHANGED <<others, cfg, mutex, net, rx, client, pid>>

NextReach ==
  \/ ReachComplete
  \/ ReachTimeout

SpecReach == InitReach /\ [][NextReach]_vars

\* C10: reach is a 16 bit shift register: a run of timeouts shifts it left
\* by one bit each; from 0xFFFF four timeouts leave 0xFFF0 and no less than
\* sixteen leave 0; at 0 the state is Unreachable and the calculation is
\* empty and invalid; before that the state is not Unreachable
C10_ShiftRegister ==
  /\ srv.reach \in 0..(ReachMod - 1)
  /\ hv.run < ReachBits => srv.reach = (hv.before * (2 ^ hv.run)) % ReachMod
  /\ (hv.before = ReachMod - 1 /\ hv.run = 4) => srv.reach = ReachMod - 16
  /\ (hv.before = ReachMod - 1 /\ hv.run < ReachBits) =>
       (srv.reach # 0 /\ srv.state # unreachable)
  /\ hv.run >= ReachBits =>
       (srv.reach = 0 /\ srv.state = unreachable /\ calc.seqs = << >> /\ ~calc.valid)

\* sixteen timeouts in a row after reach was 0xFFFF
C10_Witness ==
  /\ hv.before = ReachMod - 1
  /\ hv.run = ReachBits
  /\ srv.reach = 0
  /\ srv.state = unreachable

\* ---------------------------------------------------------- server mode
\* sequence ids of the requests explored
RequestIDs == {0, 3001}
\* the complete requests ServerMode::onMsgReceived hands to processRequest:
\* level is the level of the request's ingress timestamp, listener tells
\* whether a Listener is configured for the interface that has the request's
\* destination address
Requests ==
  [oneStep : BOOLEAN, syncTLV : BOOLEAN, level : {lvUser, lvSocket, lvHardware},
   seqID : RequestIDs, listener : BOOLEAN]

\* the level processRequest asks network::send for
RequestedLevel(req) == IF req.oneStep THEN lvUser ELSE req.level

\* has processRequest found a UTC offset (utcOffset != INT16_MAX)
HasUtcOffset(req) == RequestedLevel(req) = lvHardware /\ req.listener

\* the Sync of the response
SyncResponse(req) ==
  [sent |-> TRUE, tlv |-> req.syncTLV, utc |-> req.syncTLV /\ HasUtcOffset(req), error |-> FALSE]

\* Inventory::send and Socket::transmitTimestamp: the levels the transmit
\* timestamp of the Sync can have; a one-step message is stamped at user
\* level, otherwise the error queue delivers the level of the socket, a lower
\* one, or nothing within the poll
TxLevels(desired, twoStep) ==
  IF ~twoStep \/ desired < lvSocket THEN {lvUser} ELSE lvUser..desired

\* the Follow Up of the response to a two-step request
FollowUpResponse(req, achieved) ==
  IF req.syncTLV THEN [sent |-> TRUE, tlv |-> FALSE, utc |-> FALSE, error |-> FALSE]
  ELSE IF HasUtcOffset(req) \/ req.seqID > 3000
       THEN [sent |-> TRUE, tlv |-> TRUE,
             utc |-> ~(achieved # req.level \/ req.seqID > 3000),
             error |-> achieved # req.level \/ req.seqID > 3000]
       ELSE [sent |-> TRUE, tlv |-> TRUE, utc |-> FALSE, error |-> FALSE]

\* ServerMode::onMsgReceived: a request is complete and processRequest
\* starts; without an interface for its destination address it is discarded
SmReceive ==
  /\ smode.pc = "idle"
  /\ \E req \in Requests, hasAddress \in BOOLEAN :
       smode' = [IdleServerMode EXCEPT !.req = req,
                                        !.pc = IF hasAddress THEN "sync" ELSE "done"]
  /\ UNCHANGED notSmode

\* network::send of the Sync, with the transmit timestamp
SmSendSync ==
  /\ smode.pc = "sync"
  /\ \E ok \in BOOLEAN :
     \E lv \in TxLevels(RequestedLevel(smode.req), ~smode.req.oneStep) :
       smode' = IF ok
                THEN [smode EXCEPT !.sync = SyncResponse(smode.req), !.achieved = lv,
                                   !.pc = IF smode.req.oneStep THEN "done" ELSE "followUp"]
                ELSE [smode EXCEPT !.pc = "done"]
  /\ UNCHANGED notSmode

\* the Follow Up is built from the level achieved and sent
SmSendFollowUp ==
  /\ smode.pc = "followUp"
  /\ smode' = [smode EXCEPT !.fu = FollowUpResponse(smode.req, smode.achieved), !.pc = "done"]
  /\ UNCHANGED notSmode

\* processRequest returns
SmDone ==
  /\ smode.pc = "done"
  /\ smode' = [smode EXCEPT !.pc = "idle"]
  /\ UNCHANGED notSmode

\* the client side as constructed, with the default configuration
ClientSideOff ==
  /\ cfg = DefaultConfig
  /\ srv = InitSrv
  /\ calc = EmptyCalc
  /\ mutex = "free"
  /\ worker = [pc |-> "off", running |-> FALSE, sequenceID |-> 0, sweepDue |-> FALSE]
  /\ net = [inflight |-> {}]
  /\ rx = [t \in RxThreads |-> IdleRx]
  /\ client = [pc |-> "start", running |-> TRUE, secDue |-> TRUE, sel |-> << >>]
  /\ pid = InitPid
  /\ hv = InitHv

InitServerMode ==
  /\ ClientSideOff
  /\ smode = IdleServerMode
  /\ thr = NoThreads
  /\ sock = IdleSocket
  /\ fn = NoCall

NextServerMode ==
  \/ SmReceive
  \/ SmSendSync
  \/ SmSendFollowUp
  \/ SmDone

SpecServerMode == InitServerMode /\ [][NextServerMode]_vars

\* C11: a response whose TLV travels in the Follow Up and whose transmit
\* timestamp has a lower level than the request's carries the error bit
\* TX_TIMESTAMP_INVALID in that TLV and no UTC flags
C11_ErrorBitWhenLower ==
  (smode.fu.sent /\ smode.fu.tlv /\ smode.achieved < smode.req.level)
     => (smode.fu.error /\ ~smode.fu.utc /\ ~smode.sync.utc)

\* -------------------------------------------------------------- threads
\* Thread::start: _running is set and the std::thread created
Started(T, t) ==
  [T EXCEPT !.running[t] = TRUE, !.pc[t] = "start", !.created = Append(@, t)]

\* Thread::stop up to the join: _running is cleared
StopFlag(T, t) == [T EXCEPT !.running[t] = FALSE]

\* _thread->join() has returned
Joined(T, t) == [T EXCEPT !.joined = Append(@, t)]

\* the order in which a mode's threadFunc stops its workers, and FlashPTP::stop
\* the modes
StopOrderReversed(list) == [i \in 1..Len(list) |-> list[Len(list) + 1 - i]]

StopOrder(list) == list

\* FlashPTP::start: client mode, then server mode
MainStart ==
  /\ thr.main.pc = "start"
  /\ thr' = [Started(thr, Modes[thr.main.i]) EXCEPT
               !.main = IF thr.main.i = Len(Modes) THEN [pc |-> "run", i |-> 1]
                        ELSE [pc |-> "start", i |-> thr.main.i + 1]]
  /\ UNCHANGED notThr

\* FlashPTP::stop is called; Thread::stop of the next mode clears its flag
MainStop ==
  /\ thr.main.pc \in {"run", "stop"}
  /\ thr' = [StopFlag(thr, StopOrder(Modes)[thr.main.i]) EXCEPT !.main.pc = "join"]
  /\ UNCHANGED notThr

\* the mode's thread has returned from its threadFunc: join returns
MainJoin ==
  /\ thr.main.pc = "join"
  /\ thr.pc[StopOrder(Modes)[thr.main.i]] = "exited"
  /\ thr' = [Joined(thr, StopOrder(Modes)[thr.main.i]) EXCEPT
               !.main = IF thr.main.i = Len(Modes) THEN [pc |-> "done", i |-> 1]
                        ELSE [pc |-> "stop", i |-> thr.main.i + 1]]
  /\ UNCHANGED notThr

\* ClientMode / ServerMode::threadFunc: start the next worker
ModeStartKid(m) ==
  /\ thr.pc[m] = "start"
  /\ thr' = [Started(thr, Kids(m)[thr.idx[m]]) EXCEPT
               !.pc[Kids(m)[thr.idx[m]]] = "loop",
               !.pc[m] = IF thr.idx[m] = MaxWorkers THEN "loop" ELSE "start",
               !.idx[m] = IF thr.idx[m] = MaxWorkers THEN 1 ELSE @ + 1]
  /\ UNCHANGED notThr

\* while (_running) has seen the flag cleared
ModeLeaveLoop(m) ==
  /\ thr.pc[m] = "loop"
  /\ ~thr.running[m]
  /\ thr' = [thr EXCEPT !.pc[m] = "stop"]
  /\ UNCHANGED notThr

\* the mode's thread stops its next worker: Thread::stop clears the flag
ModeStopKid(m) ==
  /\ thr.pc[m] = "stop"
  /\ thr' = [StopFlag(thr, StopOrder(Kids(m))[thr.idx[m]]) EXCEPT !.pc[m] = "join"]
  /\ UNCHANGED notThr

\* the worker is joined; after the last one threadFunc returns
ModeJoinKid(m) ==
  /\ thr.pc[m] = "join"
  /\ thr.pc[StopOrder(Kids(m))[thr.idx[m]]] = "exited"
  /\ thr' = [Joined(thr, StopOrder(Kids(m))[thr.idx[m]]) EXCEPT
               !.pc[m] = IF thr.idx[m] = MaxWorkers THEN "exited" ELSE "stop",
               !.idx[m] = IF thr.idx[m] = MaxWorkers THEN 1 ELSE @ + 1]
  /\ UNCHANGED notThr

\* a Server's or Listener's threadFunc leaves its loop and returns
KidExit(m, k) ==
  /\ thr.pc[Kids(m)[k]] = "loop"
  /\ ~thr.running[Kids(m)[k]]
  /\ thr' = [thr EXCEPT !.pc[Kids(m)[k]] = "exited"]
  /\ UNCHANGED notThr

InitThreads ==
  /\ ClientSideOff
  /\ smode = IdleServerMode
  /\ thr = NoThreads
  /\ sock = IdleSocket
  /\ fn = NoCall

NextThreads ==
  \/ MainStart
  \/ MainStop
  \/ MainJoin
  \/ \E i \in 1..2 : ModeStartKid(Modes[i])
  \/ \E i \in 1..2 : ModeLeaveLoop(Modes[i])
  \/ \E i \in 1..2 : ModeStopKid(Modes[i])
  \/ \E i \in 1..2 : ModeJoinKid(Modes[i])
  \/ \E i \in 1..2, k \in 1..MaxWorkers : KidExit(Modes[i], k)

SpecThreads == InitThreads /\ [][NextThreads]_vars

\* position of a thread in a sequence of threads, 0 if it is not in it
Pos(list, t) == IF \E i \in 1..Len(list) : list[i] = t
                THEN CHOOSE i \in 1..Len(list) : list[i] = t ELSE 0

\* threads started by the same thread: the two modes, or two workers of a mode
Siblings(a, b) ==
  /\ a # b
  /\ \/ \E i, j \in 1..2 : a = Modes[i] /\ b = Modes[j]
     \/ \E i \in 1..2 : \E k, l \in 1..MaxWorkers : a = Kids(Modes[i])[k] /\ b = Kids(Modes[i])[l]

\* C13 as stated: of two threads started by the same thread, the one created
\* later is joined first
C13_AsStated ==
  \A a, b \in ThreadNames :
    (Siblings(a, b) /\ Pos(thr.joined, a) > 0 /\ Pos(thr.joined, b) > 0
       /\ Pos(thr.created, a) < Pos(thr.created, b))
      => Pos(thr.joined, b) < Pos(thr.joined, a)

\* C13: stop clears the running flag of a thread and joins it; threads
\* started by the same thread are joined in the order in which they were
\* created, and the workers of a mode are joined before the mode's own
\* thread is
C13_JoinInCreationOrder ==
  /\ \A a, b \in ThreadNames :
       (Siblings(a, b) /\ Pos(thr.joined, a) > 0 /\ Pos(thr.joined, b) > 0
          /\ Pos(thr.created, a) < Pos(thr.created, b))
         => Pos(thr.joined, a) < Pos(thr.joined, b)
  /\ \A t \in ThreadNames :
       Pos(thr.joined, t) > 0 => (~thr.running[t] /\ thr.pc[t] = "exited" /\ Pos(thr.created, t) > 0)
  /\ \A i \in 1..2 : \A k \in 1..MaxWorkers :
       Pos(thr.joined, Modes[i]) > 0 =>
         (Pos(thr.joined, Kids(Modes[i])[k]) > 0
            /\ Pos(thr.joined, Kids(Modes[i])[k]) < Pos(thr.joined, Modes[i]))

\* FlashPTP::stop has returned with every thread joined
C13_Witness == thr.main.pc = "done" /\ Len(thr.joined) = 2 + 2 * MaxWorkers

\* ------------------------------------------- Socket::transmitTimestamp
\* time a poll can take before it returns with an event (ms)
PollWaits == {0, 50}

\* time spent so far, counted up to MaxElapsed
Later(e, w) == IF e + w > MaxElapsed THEN MaxElapsed ELSE e + w

\* Inventory::send calls transmitTimestamp for the message just sent: the
\* level r requested by the caller is lowered to the level i of the interface,
\* and Interface::sock returns a socket that matches, one opened for the level
\* d or a higher one; hw tells whether the socket was opened for hardware
\* timestamps, stale how many messages of earlier transmissions the error
\* queue still holds
TsCall ==
  /\ sock.pc \in {"idle", "returned"}
  /\ \E r \in {lvUser, lvSocket, lvHardware}, i \in {lvUser, lvSocket, lvHardware},
        s \in {lvUser, lvSocket, lvHardware}, q \in 0..MaxStale :
       \E d \in {IF r > i THEN i ELSE r} :
         /\ d <= s
         /\ s <= i
         /\ sock' = [pc |-> IF d < lvSocket THEN "usr" ELSE "poll",
                     requested |-> r, desired |-> d, hw |-> (s = lvHardware),
                     stale |-> q, err |-> FALSE, elapsed |-> 0, level |-> lvInvalid]
  /\ UNCHANGED notSock

\* poll(&pfd, 1, 100) times out or fails
TsPollTimeout ==
  /\ sock.pc = "poll"
  /\ ~sock.err
  /\ \E w \in {0, PollTimeout} :
       sock' = [sock EXCEPT !.pc = "usr", !.elapsed = Later(@, w)]
  /\ UNCHANGED notSock

\* poll returns an event: POLLERR leads to recvmsg, any other event
\* (POLLHUP, POLLNVAL) back to poll; with an error pending on the socket poll
\* returns POLLERR at once
TsPollEvent ==
  /\ sock.pc = "poll"
  /\ \E w \in PollWaits, pollerr \in BOOLEAN :
       /\ sock.err => (w = 0 /\ pollerr)
       /\ sock' = [sock EXCEPT !.pc = IF pollerr THEN "recv" ELSE "poll",
                            !.elapsed = Later(@, w)]
  /\ UNCHANGED notSock

\* recvmsg(MSG_ERRQUEUE) fails (n < 0; an error of the socket that caused
\* the POLLERR stays pending, an interruption does not), or returns a message
\* of an earlier transmission
TsRecvOther ==
  /\ sock.pc = "recv"
  /\ \/ \E e \in BOOLEAN : sock' = [sock EXCEPT !.pc = "poll", !.err = @ \/ e]
     \/ /\ sock.stale > 0
        /\ sock' = [sock EXCEPT !.pc = "poll", !.stale = @ - 1]
  /\ UNCHANGED notSock

\* recvmsg returns the message sent, with the timestamps the control
\* messages hold: none, the software one, or the hardware one as well
TsRecvMatch ==
  /\ sock.pc = "recv"
  /\ \E sw \in BOOLEAN, raw \in BOOLEAN :
       sock' = [sock EXCEPT !.pc = "usr",
                            !.level = IF raw /\ sock.hw THEN lvHardware
                                      ELSE IF sw THEN lvSocket ELSE lvInvalid]
  /\ UNCHANGED notSock

\* get_usr_timestamp: clock_gettime unless a timestamp was found; return
TsReturn ==
  /\ sock.pc = "usr"
  /\ sock' = [sock EXCEPT !.pc = "returned",
                          !.level = IF @ = lvInvalid THEN lvUser ELSE @]
  /\ UNCHANGED notSock

SocketStep ==
  \/ TsPollTimeout
  \/ TsPollEvent
  \/ TsRecvOther
  \/ TsRecvMatch
  \/ TsReturn

InitSocket ==
  /\ ClientSideOff
  /\ smode = IdleServerMode
  /\ thr = NoThreads
  /\ sock = IdleSocket
  /\ fn = NoCall

NextSocket ==
  \/ TsCall
  \/ SocketStep

\* the thread inside transmitTimestamp keeps running
LiveSocket == InitSocket /\ [][NextSocket]_vars /\ WF_vars(SocketStep)

\* C12: every call of transmitTimestamp returns, and it returns within the
\* bound of one poll
C12_TimestampBounded ==
  /\ [](sock.pc = "returned" => sock.elapsed <= PollTimeout)
  /\ (sock.pc \in {"poll", "recv", "usr"}) ~> (sock.pc = "returned")

\* ------------------------------------------------- one Sequence on its own
\* largest value of the signed integer the nanosecond arithmetic is done in
\* (the range is -NsLimit-1 .. NsLimit): every timestamp and every difference
\* of two sums of timestamps fits, the sum of two timestamps need not
\* (int64_t against 48 bit seconds and 32 bit nanoseconds)
NsLimit == 2 * MaxTime - 2

Levels == {lvUser, lvSocket, lvHardware}
Times == 1..MaxTime
Corrections == {0, 1}

Lower(a, b) == IF a < b THEN a ELSE b

\* the int64_t result of an operation with the exact result v: the value
\* wraps around at the ends of the range
Int64(v) == ((v + NsLimit + 1) % (2 * NsLimit + 2)) - (NsLimit + 1)

\* Inventory::recv: the level of an RX timestamp on a socket opened with level lv
RxLevels(lv) ==
  {lvUser} \cup (IF lv >= lvSocket THEN {lvSocket} ELSE {})
           \cup (IF lv = lvHardware THEN {lvHardware} ELSE {})

\* Sequence::complete
SeqComplete(q) == q.t1 # 0 /\ q.t2 # 0 /\ q.t3 # 0 /\ q.t4 # 0

\* Sequence::meanPathDelay
meanPathDelay(c2s, s2c) == CDiv(Int64(c2s + s2c), 2)

\* faulty variant of Sequence::finish: the sums are subtracted the other
\* way round
finishValuesSwapped(q) ==
  << Int64(Int64(Int64(q.t2 - q.t1) - q.t2Correction) - q.utcCorrection),
     Int64(Int64(Int64(q.t4 - q.t3) - q.t4Correction) + q.utcCorrection),
     CDiv(Int64(Int64(Int64(Int64(q.t1 + q.t4) - q.t4Correction) - q.utcCorrection)
                - Int64(Int64(Int64(q.t2 + q.t3) - q.t2Correction) - q.utcCorrection)), 2) >>

\* Sequence::finish: the (c2sDelay, s2cDelay, offset) it stores
finishValues(q) ==
  << Int64(Int64(Int64(q.t2 - q.t1) - q.t2Correction) - q.utcCorrection),
     Int64(Int64(Int64(q.t4 - q.t3) - q.t4Correction) + q.utcCorrection),
     CDiv(Int64(Int64(Int64(Int64(q.t2 + q.t3) - q.t2Correction) - q.utcCorrection)
                - Int64(Int64(Int64(q.t1 + q.t4) - q.t4Correction) - q.utcCorrection)), 2) >>

\* a Server is configured (Server::setConfig: one-step implies the TLV in the
\* Sync); nothing sent yet
SeqConfigs ==
  { q \in [op : {"sequence"}, pc : {"new"}, oneStep : BOOLEAN, syncTLV : BOOLEAN,
           cfgLevel : Levels, ifLevel : Levels, level : {lvInvalid},
           born : {lvInvalid}, t1 : {0}, t2 : {0}, t3 : {0}, t4 : {0},
           t2Correction : {0}, t4Correction : {0}, utcCorrection : {0},
           c2sDelay : {0}, s2cDelay : {0}, offset : {0}] :
      q.oneStep => q.syncTLV }

\* Server::threadFunc sends the request and stores the new Sequence with the
\* level and the timestamp network::send returned (born keeps the level the
\* Sequence was constructed with)
SeqSend ==
  /\ fn.pc = "new"
  /\ \E lv \in TxLevels(Lower(fn.cfgLevel, fn.ifLevel), ~fn.oneStep), t \in Times :
       fn' = [fn EXCEPT !.pc = "stored", !.level = lv, !.born = lv, !.t1 = t]
  /\ UNCHANGED notFn

\* Server::processMessage with the Sync of the response: Sequence::merge
\* takes the RX timestamp and its level, T3 of a one-step response, and the
\* TLV if it is attached to the Sync
SeqMergeSync ==
  /\ fn.pc = "stored"
  /\ fn.t4 = 0
  /\ \E lv \in RxLevels(Lower(fn.cfgLevel, fn.ifLevel)), ta \in Times, c4 \in Corrections,
        tb \in IF fn.oneStep THEN Times ELSE {fn.t3},
        tc \in IF fn.syncTLV THEN Times ELSE {fn.t2},
        c2 \in IF fn.syncTLV THEN Corrections ELSE {fn.t2Correction},
        u \in IF fn.syncTLV THEN Corrections ELSE {fn.utcCorrection} :
       fn' = [fn EXCEPT !.level = lv, !.t4 = ta, !.t3 = tb, !.t2 = tc,
                        !.t2Correction = c2, !.utcCorrection = u, !.t4Correction = c4]
  /\ UNCHANGED notFn

\* Server::processMessage with the Follow Up of the response
SeqMergeFollowUp ==
  /\ fn.pc = "stored"
  /\ ~fn.oneStep
  /\ fn.t3 = 0
  /\ \E tb \in Times,
        tc \in IF fn.syncTLV THEN {fn.t2} ELSE Times,
        c2 \in IF fn.syncTLV THEN {fn.t2Correction} ELSE Corrections,
        u \in IF fn.syncTLV THEN {fn.utcCorrection} ELSE Corrections :
       fn' = [fn EXCEPT !.t3 = tb, !.t2 = tc, !.t2Correction = c2, !.utcCorrection = u]
  /\ UNCHANGED notFn

\* Server::processMessage: the complete Sequence is finished and handed to
\* onSequenceComplete
SeqFinish ==
  /\ fn.pc = "stored"
  /\ SeqComplete(fn)
  /\ \E r \in {finishValues(fn)} :
       fn' = [fn EXCEPT !.pc = "finished", !.c2sDelay = r[1], !.s2cDelay = r[2],
                        !.offset = r[3]]
  /\ UNCHANGED notFn

InitSequence ==
  /\ ClientSideOff
  /\ smode = IdleServerMode
  /\ thr = NoThreads
  /\ sock = IdleSocket
  /\ fn \in SeqConfigs

NextSequence ==
  \/ SeqSend
  \/ SeqMergeSync
  \/ SeqMergeFollowUp
  \/ SeqFinish

SpecSequence == InitSequence /\ [][NextSequence]_vars

\* C14: the Sequence of a one-step request has level user when it is stored
\* and when it is finished
C14_OneStepLevelUser ==
  (fn.oneStep /\ fn.pc \in {"stored", "finished"}) => fn.level = lvUser

ZeroCorrections(q) == q.t2Correction = 0 /\ q.t4Correction = 0 /\ q.utcCorrection = 0

\* the formulas of the specification for offset and mean path delay hold
OffsetAndDelay(q) ==
  /\ q.offset = CDiv((q.t2 + q.t3) - (q.t1 + q.t4), 2)
  /\ meanPathDelay(q.c2sDelay, q.s2cDelay) = CDiv((q.t2 - q.t1) + (q.t4 - q.t3), 2)

\* C17: for every finished Sequence with zero corrections
\* offset = ((T2+T3) - (T1+T4)) / 2 and meanPathDelay = ((T2-T1) + (T4-T3)) / 2
\* (integer divisions, truncating toward zero)
C17_OffsetAndDelay ==
  (fn.pc = "finished" /\ ZeroCorrections(fn)) => OffsetAndDelay(fn)

\* a finished Sequence with zero corrections, different delays in the two
\* directions, a negative odd difference of the sums and a sum T1+T4 beyond
\* the range of the integer
C17_Witness ==
  /\ fn.pc = "finished"
  /\ ZeroCorrections(fn)
  /\ fn.t1 + fn.t4 > NsLimit
  /\ fn.offset < 0
  /\ (fn.t2 + fn.t3) - (fn.t1 + fn.t4) = 0 - 3
  /\ fn.c2sDelay # fn.s2cDelay

\* C21: a stored or finished Sequence has the level it was born with: a
\* Sequence whose T4 was taken at another level is not finished and handed on,
\* and its level does not change
C21_LevelOfBirth ==
  (fn.op = "sequence" /\ fn.pc \in {"stored", "finished"}) => fn.level = fn.born

\* ------------------------------------------- Selection over several servers
\* the servers configured in client mode
NumServers == 3
\* selection configuration: delayThreshold, intersectionPadding,
\* maxOffsetDifference
SelDelayThreshold == 5
IntersectionPadding == 2
MaxOffsetDifference == 20

INT64_MIN == (0 - INT64_MAX) - 1

\* int64_t addition, subtraction and llabs, wrapping around
AddWrap(a, b) ==
  IF b >= 0
  THEN IF a > INT64_MAX - b THEN ((a - INT64_MAX) - 1) + ((b - INT64_MAX) - 1) ELSE a + b
  ELSE IF a < INT64_MIN - b THEN ((a + INT64_MAX) + 1) + ((b + INT64_MAX) + 1) ELSE a + b

SubWrap(a, b) ==
  IF b = INT64_MIN THEN AddWrap(AddWrap(a, INT64_MAX), 1) ELSE AddWrap(a, 0 - b)

AbsWrap(x) == IF x = INT64_MIN THEN INT64_MIN ELSE Abs(x)

\* what a Server's calculation and offset history report: clockID(),
\* hasAdjustment(), delay(), offset(), minOffset(), maxOffset(), stdDev()
EmptyValues ==
  [clock |-> NoClock, hasAdj |-> FALSE, delay |-> 0, offset |-> 0,
   min |-> 0, max |-> 0, stdDev |-> INT64_MAX]

ServerValues ==
  { [clock |-> CLOCK_REALTIME, hasAdj |-> TRUE, delay |-> 2, offset |-> 0,
     min |-> 0 - 5, max |-> 5, stdDev |-> 1],
    [clock |-> CLOCK_REALTIME, hasAdj |-> TRUE, delay |-> 2, offset |-> 8,
     min |-> 4, max |-> 12, stdDev |-> 3],
    [clock |-> CLOCK_REALTIME, hasAdj |-> TRUE, delay |-> 3, offset |-> 25,
     min |-> 20, max |-> 30, stdDev |-> INT64_MAX],
    [clock |-> CLOCK_REALTIME, hasAdj |-> TRUE, delay |-> 2, offset |-> 12,
     min |-> 2, max |-> 23, stdDev |-> 2],
    [clock |-> CLOCK_REALTIME, hasAdj |-> FALSE, delay |-> 2, offset |-> 0,
     min |-> 0 - 5, max |-> 5, stdDev |-> 1],
    [clock |-> CLOCK_REALTIME, hasAdj |-> TRUE, delay |-> 9, offset |-> 0,
     min |-> 0 - 5, max |-> 5, stdDev |-> 1] }

\* faulty variant of the first loop of Selection::preprocess: servers marked
\* by an earlier select are not looked at
ConsideredReadyOnly(x, id) == x.state = ready /\ x.v.clock = id

\* Selection::preprocess, first loop: the servers looked at for clock id
Considered(x, id) == x.state >= ready /\ x.v.clock = id

\* ... and those of them that are skipped and marked falsetickers
Skipped(x) == x.noSelect \/ Abs(x.v.delay) > SelDelayThreshold

RECURSIVE PreSelected(_, _, _)
\* ... and the vector v of the others, in the order of the servers
PreSelected(S, id, i) ==
  IF i > Len(S) THEN << >>
  ELSE IF Considered(S[i], id) /\ ~Skipped(S[i])
       THEN <<i>> \o PreSelected(S, id, i + 1)
       ELSE PreSelected(S, id, i + 1)

\* Selection::preprocess, second loop: a pre-selected server has no new
\* adjustment value
NoNewAdjustment(S, v) == \E k \in 1..Len(v) : ~S[v[k]].v.hasAdj

\* IntersectionGroup::pad
Pad(g) ==
  IF Abs(g.max - g.min) >= IntersectionPadding THEN g
  ELSE LET mean == CDiv(g.max + g.min, 2)
       IN [g EXCEPT !.min = mean - CDiv(IntersectionPadding, 2),
                    !.max = mean + CDiv(IntersectionPadding, 2)]

\* IntersectionGroup::addServer
addServer(g, i, x) ==
  LET n == Len(g.servers) + 1
      cmin == g.cumulatedMin + x.v.min
      cmax == g.cumulatedMax + x.v.max
      coff == g.cumulatedOffset + x.v.offset
  IN Pad([servers |-> Append(g.servers, i),
          cumulatedMin |-> cmin, cumulatedMax |-> cmax, cumulatedOffset |-> coff,
          min |-> CDiv(cmin, n), max |-> CDiv(cmax, n), offset |-> CDiv(coff, n)])

EmptyGroup ==
  [servers |-> << >>, cumulatedMin |-> 0, cumulatedMax |-> 0, cumulatedOffset |-> 0,
   min |-> 0, max |-> 0, offset |-> 0]

\* IntersectionGroup::contains
contains(g, x) ==
  IF MaxOffsetDifference > 0 /\ Abs(g.offset - x.v.offset) > MaxOffsetDifference
  THEN FALSE
  ELSE x.v.min < g.max /\ x.v.max > g.min

\* detectTruechimers: server i joins every group that contains it, or founds
\* a new one
JoinGroups(groups, i, x) ==
  LET joined == [j \in 1..Len(groups) |->
                   IF contains(groups[j], x) THEN addServer(groups[j], i, x) ELSE groups[j]]
  IN IF \E j \in 1..Len(groups) : contains(groups[j], x)
     THEN joined
     ELSE Append(groups, addServer(EmptyGroup, i, x))

RECURSIVE BuildGroups(_, _, _, _)
BuildGroups(S, v, k, groups) ==
  IF k > Len(v) THEN groups
  ELSE BuildGroups(S, v, k + 1, JoinGroups(groups, v[k], S[v[k]]))

\* detectTruechimers: the indices of the groups of maximum size
RECURSIVE BestGroups(_, _, _, _)
BestGroups(groups, i, max, best) ==
  IF i > Len(groups) THEN best
  ELSE IF Len(groups[i].servers) > max
       THEN BestGroups(groups, i + 1, Len(groups[i].servers), <<i>>)
       ELSE IF Len(groups[i].servers) = max
            THEN BestGroups(groups, i + 1, max, Append(best, i))
            ELSE BestGroups(groups, i + 1, max, best)

\* detectTruechimers: one of the three loops that erase groups from
\* bestGroups; m[g] is the value of group g compared, min the value of the
\* first group when the loop starts, i and j the positions (from 1)
RECURSIVE Erase(_, _, _, _, _)
Erase(best, i, j, min, m) ==
  IF i > Len(best) THEN best
  ELSE LET next == m[best[i]]
       IN IF AbsWrap(SubWrap(next, min)) > IntersectionPadding
          THEN IF next < min
               THEN Erase(RemoveAt(best, j), i, i - 1, min, m)
               ELSE Erase(RemoveAt(best, i), i, j, min, m)
          ELSE Erase(best, i + 1, j, min, m)

RECURSIVE SumStdDev(_, _)
SumStdDev(S, list) ==
  IF list = << >> THEN 0 ELSE AddWrap(S[Head(list)].v.stdDev, SumStdDev(S, Tail(list)))

RECURSIVE SumDelay(_, _)
SumDelay(S, list) ==
  IF list = << >> THEN 0 ELSE S[Head(list)].v.delay + SumDelay(S, Tail(list))

\* Selection::detectTruechimers: the truechimers among the servers v
detectTruechimers(S, v) ==
  IF Len(v) <= 2 THEN v
  ELSE LET groups == BuildGroups(S, v, 1, << >>)
           G == 1..Len(groups)
           best0 == BestGroups(groups, 1, 0, << >>)
           width == [g \in G |-> groups[g].max - groups[g].min]
           best1 == Erase(best0, 2, 1, width[best0[1]], width)
           dev == [g \in G |-> CDiv(SumStdDev(S, groups[g].servers), Len(groups[g].servers))]
           best2 == Erase(best1, 2, 1, dev[best1[1]], dev)
           dly == [g \in G |-> CDiv(SumDelay(S, groups[g].servers), Len(groups[g].servers))]
           best3 == Erase(best2, 2, 1, dly[best2[1]], dly)
       IN IF Len(best0) = 1 THEN groups[best0[1]].servers
          ELSE IF Len(best1) = 1 THEN groups[best1[1]].servers
          ELSE IF Len(best2) = 1 THEN groups[best2[1]].servers
          ELSE groups[best3[1]].servers

InSeq(list, i) == \E k \in 1..Len(list) : list[k] = i

\* faulty variant of the end of detectTruechimers: the servers outside the
\* truechimers keep their state
MarkTruechimersOnly(st, truechimer) == IF truechimer THEN candidate ELSE st

\* detectTruechimers, finish: the state of a server of v
MarkTruechimers(st, truechimer) == IF truechimer THEN candidate ELSE falseticker

RECURSIVE BestStdDev(_, _, _, _, _)
\* StdDev::select, inner loop: the position j in p of the server with the
\* smallest stdDev() that is not in r (Len(p) + 1: none)
BestStdDev(S, p, r, i, j) ==
  IF i > Len(p) THEN j
  ELSE IF S[p[i]].v.stdDev = INT64_MAX \/ InSeq(r, p[i])
       THEN BestStdDev(S, p, r, i + 1, j)
       ELSE IF j = Len(p) + 1 \/ S[p[i]].v.stdDev < S[p[j]].v.stdDev
            THEN BestStdDev(S, p, r, i + 1, i)
            ELSE BestStdDev(S, p, r, i + 1, j)

RECURSIVE PickStdDev(_, _, _)
\* StdDev::select, outer loop
PickStdDev(S, p, r) ==
  IF Len(r) >= SelectionPick THEN r
  ELSE LET j == BestStdDev(S, p, r, 1, Len(p) + 1)
       IN IF j = Len(p) + 1 THEN r ELSE PickStdDev(S, p, Append(r, p[j]))

\* faulty variant of the early return of Selection::preprocess: the
\* pre-selected servers are reset to ready before the vector is checked
NoSelectionResets(S, v, skipped) ==
  [servers |-> [i \in 1..Len(S) |->
                  IF InSeq(v, i) THEN [S[i] EXCEPT !.state = ready] ELSE skipped[i]],
   r |-> << >>]

\* Selection::preprocess returns an empty vector before it touches the
\* pre-selected servers; StdDev::select then picks and marks nothing
NoSelection(S, v, skipped) == [servers |-> skipped, r |-> << >>]

\* faulty variant of StdDev::select: the servers dropped by the first loop of
\* preprocess keep their state
StdDevSelectKeepsDropped(S, id) ==
  LET v == PreSelected(S, id, 1)
  IN IF NoNewAdjustment(S, v)
     THEN NoSelection(S, v, S)
     ELSE LET t == detectTruechimers(S, v)
              r == PickStdDev(S, t, << >>)
          IN [servers |->
                [i \in 1..Len(S) |->
                   IF InSeq(r, i) THEN [S[i] EXCEPT !.state = postprocess(@)]
                   ELSE IF InSeq(v, i)
                        THEN [S[i] EXCEPT !.state = MarkTruechimers(ready, InSeq(t, i))]
                        ELSE S[i]],
              r |-> r]

\* StdDev::select(servers, id): the servers with their new states and the
\* vector returned
StdDevSelect(S, id) ==
  LET v == PreSelected(S, id, 1)
      skipped == [i \in 1..Len(S) |->
                    IF Considered(S[i], id) /\ Skipped(S[i])
                    THEN [S[i] EXCEPT !.state = falseticker] ELSE S[i]]
  IN IF NoNewAdjustment(S, v)
     THEN NoSelection(S, v, skipped)
     ELSE LET t == detectTruechimers(S, v)
              r == PickStdDev(S, t, << >>)
          IN [servers |->
                [i \in 1..Len(S) |->
                   IF InSeq(r, i) THEN [S[i] EXCEPT !.state = postprocess(@)]
                   ELSE IF InSeq(v, i)
                        THEN [S[i] EXCEPT !.state = MarkTruechimers(ready, InSeq(t, i))]
                        ELSE skipped[i]],
              r |-> r]

\* performAdjustments: select for the adjustment of CLOCK_REALTIME
SelectTick ==
  /\ fn.op = "select"
  /\ \E out \in {StdDevSelect(fn.servers, CLOCK_REALTIME)} :
       fn' = [fn EXCEPT !.servers = out.servers, !.last = out.r, !.act = "select"]
  /\ UNCHANGED notFn

\* a Sequence of server i completes: the calculation and the offset history
\* report new values; a server that was not ready becomes ready
ServerComplete(i) ==
  /\ fn.op = "select"
  /\ \E x \in ServerValues :
       fn' = [fn EXCEPT !.servers[i].v = x,
                        !.servers[i].state = StateAfterComplete(@, TRUE),
                        !.act = "update"]
  /\ UNCHANGED notFn

\* Sequences of server i time out until the calculation is reset; with reach
\* zero the server becomes unreachable
ServerTimeout(i) ==
  /\ fn.op = "select"
  /\ \E st \in {fn.servers[i].state, unreachable} :
       fn' = [fn EXCEPT !.servers[i].v = EmptyValues, !.servers[i].state = st,
                        !.act = "update"]
  /\ UNCHANGED notFn

\* ClientMode::resetUnusedServersStates, once per second; there is an
\* adjustment for CLOCK_REALTIME only
ResetUnused ==
  /\ fn.op = "select"
  /\ fn' = [fn EXCEPT !.servers = [i \in 1..Len(@) |->
                         IF @[i].state > ready /\ @[i].v.clock # CLOCK_REALTIME
                         THEN [@[i] EXCEPT !.state = ready] ELSE @[i]],
                      !.act = "reset"]
  /\ UNCHANGED notFn

InitSelect ==
  /\ ClientSideOff
  /\ smode = IdleServerMode
  /\ thr = NoThreads
  /\ sock = IdleSocket
  /\ \E ns \in BOOLEAN :
       fn = [op |-> "select",
             servers |-> [i \in 1..NumServers |->
                            [state |-> initializing, noSelect |-> (i = NumServers /\ ns),
                             v |-> EmptyValues]],
             last |-> << >>, act |-> "reset"]

NextSelect ==
  \/ SelectTick
  \/ \E i \in 1..NumServers : ServerComplete(i)
  \/ \E i \in 1..NumServers : ServerTimeout(i)
  \/ ResetUnused

SpecSelect == InitSelect /\ [][NextSelect]_vars

Survivors(S) == PreSelected(S, CLOCK_REALTIME, 1)

\* C19: a select that finds a surviving server without a new adjustment
\* returns no server and leaves the states of the surviving servers as they
\* were
C19_NoReselection ==
  [][(fn.op = "select" /\ fn'.act = "select"
        /\ NoNewAdjustment(fn.servers, Survivors(fn.servers)))
       => (/\ fn'.last = << >>
           /\ \A i \in 1..NumServers :
                InSeq(Survivors(fn.servers), i)
                   => fn'.servers[i].state = fn.servers[i].state)]_vars

\* a select has returned nothing because of a surviving server without a new
\* adjustment, and another surviving server still is selected
C19_Witness ==
  /\ fn.op = "select"
  /\ fn.act = "select"
  /\ fn.last = << >>
  /\ NoNewAdjustment(fn.servers, Survivors(fn.servers))
  /\ \E i \in 1..NumServers :
       /\ InSeq(Survivors(fn.servers), i)
       /\ fn.servers[i].state = selected
       /\ fn.servers[i].v.hasAdj

\* the servers a select gives a state
MarkedBy(S) ==
  { i \in 1..Len(S) :
      \/ Considered(S[i], CLOCK_REALTIME) /\ Skipped(S[i])
      \/ InSeq(Survivors(S), i) /\ ~NoNewAdjustment(S, Survivors(S)) }

CalcSizes == {1, 2, 3}
CalcOffsets == {0, 10, 40}
CalcDelays == {2, 6}

\* what the calculation reports: delay(), offset(), drift()
Reported(c) == <<c.delay, c.offset, c.drift>>

\* Server::onSequenceComplete hands the n-th sequence to the calculation:
\* insert, then calculate; before and after are the values reported before
\* and after, full tells whether the window was full before
CalcComplete ==
  /\ fn.op = "calculation"
  /\ fn.n < MaxInserts
  /\ \E off \in CalcOffsets, dly \in CalcDelays :
       \E c2 \in {calculate(CalcInsert(fn.c, [NewSequence(fn.n) EXCEPT !.off = off, !.dly = dly],
                                       fn.size), fn.size)} :
         fn' = [fn EXCEPT !.c = c2, !.n = @ + 1, !.act = "insert",
                          !.full = fullyLoaded(fn.c, fn.size),
                          !.before = Reported(fn.c), !.after = Reported(c2)]
  /\ UNCHANGED notFn

\* Server::onSequenceTimeout: remove
CalcTimeout ==
  /\ fn.op = "calculation"
  /\ fn' = [fn EXCEPT !.c = CalcRemove(@),
                      !.act = IF @ = "insert" THEN "insertRemove" ELSE "remove"]
  /\ UNCHANGED notFn

InitCalculation ==
  /\ ClientSideOff
  /\ smode = IdleServerMode
  /\ thr = NoThreads
  /\ sock = IdleSocket
  /\ \E size \in CalcSizes :
       fn = [op |-> "calculation", size |-> size, c |-> EmptyCalc, n |-> 0,
             act |-> "none", full |-> FALSE,
             before |-> Reported(EmptyCalc), after |-> Reported(EmptyCalc)]

NextCalculation ==
  \/ CalcComplete
  \/ CalcTimeout

SpecCalculation == InitCalculation /\ [][NextCalculation]_vars

FirstID == MaxSeqID - 1

EarlierSequence(k, off, dly) ==
  [NewSequence((FirstID - k) % 65536) EXCEPT !.t1 = NewSequence(FirstID).t1 - k,
                                             !.hasT2 = TRUE, !.hasT3 = TRUE,
                                             !.hasT4 = TRUE, !.off = off, !.dly = dly]

\* the server and its calculation after these two sequences, both with the
\* offset off and the delay dly
LoadedFrom(config, off, dly) ==
  CHOOSE y \in
    { onSequenceComplete(a.srv, a.calc, EarlierSequence(1, off, dly), config) :
        a \in {onSequenceComplete(resetStateLocked(InitSrv), CalcReset(EmptyCalc),
                                  EarlierSequence(2, off, dly), config)} } : TRUE

InitLoaded ==
  /\ cfg \in Configs
  /\ \E off \in Offsets, dly \in Delays :
     \E r \in {LoadedFrom(cfg, off, dly)} :
       /\ srv = r.srv
       /\ calc = r.calc
  /\ mutex = "free"
  /\ worker = [pc |-> "top", running |-> TRUE, sequenceID |-> FirstID, sweepDue |-> FALSE]
  /\ net = [inflight |-> {}]
  /\ rx = [t \in RxThreads |-> IdleRx]
  /\ client = [pc |-> "top", running |-> TRUE, secDue |-> FALSE, sel |-> << >>]
  /\ pid = InitPid
  /\ hv = [InitHv EXCEPT !.fresh = TRUE]
  /\ smode = IdleServerMode
  /\ thr = NoThreads
  /\ sock = IdleSocket
  /\ fn = NoCall

\* the threads of the running client: the Server's worker in its loop, the
\* receiving thread and the client mode worker in its loop
NextLoaded ==
  \/ Tick
  \/ WorkerSweep
  \/ WorkerSendSync
  \/ WorkerSendFollowUp
  \/ WorkerAddSequence
  \/ RxStep
  \/ SelectStep
  \/ AdjustStep
  \/ ResetUnusedRead
  \/ ResetUnusedSet

SpecLoaded == InitLoaded /\ [][NextLoaded]_vars

\* a step of PIDController::adjust that uses the server's calculation values
\* for the clock: the controller's arithmetic on offset() and drift(), the
\* clock step and the frequency written
AdjustmentApplied ==
  \/ client.pc = "adjRead" /\ client'.pc \in {"adjStep", "adjFreq"}
  \/ client.pc = "adjStep" /\ client'.pc = "adjFreq"
  \/ client.pc = "adjFreq" /\ client'.pc = "finalize1"

\* C18: when hasAdjustment() of the server has become false during the pass,
\* the pass applies no adjustment with the server's calculation values
C18_DeferredOnFlip ==
  [][AdjustmentApplied => hasAdjustment(calc)]_vars

\* ------------------------------------------------ responses that come late
\* C22: a response received for a stored Sequence that has timed out is
\* dropped and the Sequence leaves the store as timed out: it is not merged,
\* nothing is handed to the filter or to the calculation, no completion starts
C22_LateResponseDropped ==
  [][\A m \in net.inflight \ net'.inflight :
       \A i \in {FindSequence(srv, m.id)} :
         (client.running /\ i # 0 /\ timedOut(srv.sequences[i])) =>
           /\ m.id \notin StoredIDs(srv')
           /\ Len(srv'.sequences) = Len(srv.sequences) - 1
           /\ srv'.reach = ShiftReach(srv.reach, 0)
           /\ rx' = rx
           /\ \A k \in 1..Len(srv'.filt) : srv'.filt[k].id # m.id
           /\ \A k \in 1..Len(calc'.seqs) : calc'.seqs[k].id # m.id]_vars

\* the first Sequence has left the store as timed out, no Sequence has
\* completed; the second is still stored, has timed out as well and its
\* response is in flight
C22_Witness ==
  /\ client.running
  /\ worker.sequenceID = 2
  /\ hv.txFailed = {}
  /\ srv.reach = 0
  /\ srv.stdDevIndex = 1
  /\ StoredIDs(srv) = {1}
  /\ timedOut(srv.sequences[1])
  /\ \E m \in net.inflight : m.id = 1
  /\ \A m \in net.inflight : m.id # 0 \/ m.type # "sync"
  /\ \A t \in RxThreads : rx[t] = IdleRx
  /\ mutex = "free"

\* ------------------------------------------ finalize over several servers
\* the calculation of the given size after n sequences were completed
RECURSIVE CalcAfter(_, _)
CalcAfter(size, n) ==
  IF n = 0 THEN EmptyCalc
  ELSE calculate(CalcInsert(CalcAfter(size, n - 1),
                            [NewSequence(n - 1) EXCEPT !.off = 10 * n, !.dly = 2], size), size)

\* PIDController::adjust has returned true for the servers sel, each with an
\* adjustment: _timeAddend is the mean offset after a step and 0 otherwise
InitFinalize ==
  /\ ClientSideOff
  /\ smode = IdleServerMode
  /\ thr = NoThreads
  /\ sock = IdleSocket
  /\ \E sz \in [1..NumServers -> CalcSizes], n \in [1..NumServers -> 1..3],
        sel \in SUBSET (1..NumServers), ki \in {0, 1}, th \in {0, 5} :
     \E S \in {[i \in 1..NumServers |-> [size |-> sz[i], c |-> CalcAfter(sz[i], n[i])]]} :
       /\ sel # {}
       /\ \A i \in sel : hasAdjustment(S[i].c)
       /\ \E offset \in {CDiv(SumSeq([i \in 1..NumServers |->
                                       IF i \in sel THEN S[i].c.offset ELSE 0]),
                              Cardinality(sel))} :
            fn = [op |-> "finalize", pc |-> "adjusted", ki |-> ki, sel |-> sel,
                  timeAddend |-> IF StepBranch([stepThreshold |-> th], offset)
                                 THEN offset ELSE 0,
                  servers |-> S, before |-> S]

\* PIDController::finalize: Adjustment::finalize, then the windows
FinalizeAll ==
  /\ fn.op = "finalize"
  /\ fn.pc = "adjusted"
  /\ fn' = [fn EXCEPT
       !.pc = "finalized",
       !.servers = [i \in 1..NumServers |->
          IF i \notin fn.sel THEN @[i]
          ELSE [@[i] EXCEPT !.c =
                  IF PidFinalizeClears([timeAddend |-> fn.timeAddend],
                                       [kiNum |-> fn.ki, calcSize |-> fn.servers[i].size])
                  THEN clearLocked([@ EXCEPT !.adjustment = FALSE])
                  ELSE [@ EXCEPT !.adjustment = FALSE]]]]
  /\ UNCHANGED notFn

NextFinalize == FinalizeAll

SpecFinalize == InitFinalize /\ [][NextFinalize]_vars

reqTimedOut(r) == r.age > RequestTimeout

\* Request::complete
reqComplete(r) == r.sync /\ (r.oneStep \/ r.followUp) /\ r.tlv

\* faulty variant of Request::merge: a message without TLV takes the TLV of
\* the Request away
reqMergeOverwrites(r, m) ==
  LET a == IF m.type = "sync"
           THEN [r EXCEPT !.sync = TRUE, !.oneStep = ~m.twoStep]
           ELSE [r EXCEPT !.followUp = TRUE]
  IN [a EXCEPT !.tlv = m.tlv]

\* Request::merge
reqMerge(r, m) ==
  LET a == IF m.type = "sync"
           THEN [r EXCEPT !.sync = TRUE, !.oneStep = ~m.twoStep]
           ELSE [r EXCEPT !.followUp = TRUE]
  IN [a EXCEPT !.tlv = r.tlv \/ m.tlv]

\* the messages of request sequences a Listener hands to ServerMode
ReqMessages == [type : {"sync", "followUp"}, twoStep : BOOLEAN, tlv : BOOLEAN]

NewRequest(obj) ==
  [obj |-> obj, sync |-> FALSE, followUp |-> FALSE, tlv |-> FALSE, oneStep |-> FALSE, age |-> 0]

\* ServerMode::processRequest: without an interface for the destination
\* address it returns at once, otherwise the response is sent and the Request
\* deleted
processRequest(F, req, hasAddress) ==
  IF ~hasAddress THEN F ELSE [F EXCEPT !.live = @ \ {req.obj}]

\* ServerMode::obtainRequest and the rest of onMsgReceived, under
\* ServerMode::_mutex
onReqReceived(F, m, hasAddress) ==
  IF F.store # << >>
  THEN IF reqTimedOut(F.store[1])
       THEN [F EXCEPT !.store = Tail(@), !.live = @ \ {F.store[1].obj}]
       ELSE LET r == reqMerge(F.store[1], m)
            IN IF reqComplete(r)
               THEN processRequest([F EXCEPT !.store = Tail(@)], r, hasAddress)
               ELSE [F EXCEPT !.store[1] = r]
  ELSE LET r == reqMerge(NewRequest(F.next), m)
           G == [F EXCEPT !.next = @ + 1, !.live = @ \cup {r.obj}]
       IN IF reqComplete(r)
          THEN processRequest(G, r, hasAddress)
          ELSE [G EXCEPT !.store = Append(@, r)]

\* ServerMode::checkRequestTimeouts
RECURSIVE checkRequestTimeouts(_)
checkRequestTimeouts(F) ==
  IF \E i \in 1..Len(F.store) : reqTimedOut(F.store[i])
  THEN LET i == CHOOSE k \in 1..Len(F.store) :
                  reqTimedOut(F.store[k]) /\ \A l \in 1..(k - 1) : ~reqTimedOut(F.store[l])
       IN checkRequestTimeouts([F EXCEPT !.store = RemoveAt(@, i),
                                         !.live = @ \ {F.store[i].obj}])
  ELSE F

\* a Listener has received a message of a request sequence
ReqReceive ==
  /\ fn.op = "requests"
  /\ \E m \in ReqMessages, hasAddress \in BOOLEAN :
       /\ fn.store = << >> => fn.next <= MaxRequests
       /\ fn' = onReqReceived(fn, m, hasAddress)
  /\ UNCHANGED notFn

\* a second passes
ReqTick ==
  /\ fn.op = "requests"
  /\ fn' = [fn EXCEPT !.sweepDue = TRUE,
                      !.store = [i \in 1..Len(@) |->
                                   [@[i] EXCEPT !.age = IF @ > RequestTimeout THEN @ ELSE @ + 1]]]
  /\ UNCHANGED notFn

\* ServerMode::threadFunc: once per second checkRequestTimeouts
ReqSweep ==
  /\ fn.op = "requests"
  /\ fn.sweepDue
  /\ fn' = [checkRequestTimeouts(fn) EXCEPT !.sweepDue = FALSE]
  /\ UNCHANGED notFn

InitRequests ==
  /\ ClientSideOff
  /\ smode = IdleServerMode
  /\ thr = NoThreads
  /\ sock = IdleSocket
  /\ fn = [op |-> "requests", store |-> << >>, live |-> {}, next |-> 1, sweepDue |-> FALSE]

NextRequests ==
  \/ ReqReceive
  \/ ReqTick
  \/ ReqSweep

\* time passes and the server mode worker keeps sweeping
LiveRequests ==
  InitRequests /\ [][NextRequests]_vars /\ WF_vars(ReqTick) /\ WF_vars(ReqSweep)

\* C25: every Request object that was created is deleted in the end
C25_RequestsDropped ==
  \A k \in 1..MaxRequests : (fn.op = "requests" /\ k \in fn.live) ~> (k \notin fn.live)

\* ------------------------------------------- dispatch of a received datagram
\* One datagram on its way through ClientMode::onMsgReceived and
\* ServerMode::onMsgReceived. period7F: logMessagePeriod is 0x7F; tlv: the
\* organization extension TLV FlashPTPTLVHdr::validate finds ("req", "res") or
\* "none"; tlvValid: rxRestore accepts it. at is the mode whose onMsgReceived
\* runs next, hops counts the calls of FlashPTP::onReqReceived and
\* onRespReceived for the datagram (up to MaxHops), out tells what became of it
Datagrams == [period7F : BOOLEAN, tlv : {"none", "req", "res"}, tlvValid : BOOLEAN]

HandOver(F, to) ==
  [F EXCEPT !.at = to, !.hops = IF @ < MaxHops THEN @ + 1 ELSE @]

Delivered(F, out) == [F EXCEPT !.at = "done", !.out = out]

\* ClientMode::onMsgReceived
clientOnMsgReceived(F) ==
  IF ~F.clientOn THEN Delivered(F, "dropped")
  ELSE IF ~F.msg.period7F THEN HandOver(F, "server")
  ELSE IF F.msg.tlv = "req" THEN HandOver(F, "server")
  ELSE IF F.msg.tlv = "res" /\ ~F.msg.tlvValid THEN Delivered(F, "dropped")
  ELSE Delivered(F, "response")

\* ServerMode::onMsgReceived
serverOnMsgReceived(F) ==
  IF ~F.serverOn THEN Delivered(F, "dropped")
  ELSE IF F.msg.period7F THEN HandOver(F, "client")
  ELSE IF F.msg.tlv = "res" THEN HandOver(F, "client")
  ELSE IF F.msg.tlv = "req" /\ ~F.msg.tlvValid THEN Delivered(F, "dropped")
  ELSE Delivered(F, "request")

DispatchClient ==
  /\ fn.op = "dispatch"
  /\ fn.at = "client"
  /\ fn' = clientOnMsgReceived(fn)
  /\ UNCHANGED notFn

DispatchServer ==
  /\ fn.op = "dispatch"
  /\ fn.at = "server"
  /\ fn' = serverOnMsgReceived(fn)
  /\ UNCHANGED notFn

\* a datagram was received by the client mode worker or by a Listener; each
\* mode is enabled and running, or not
InitDispatch ==
  /\ ClientSideOff
  /\ smode = IdleServerMode
  /\ thr = NoThreads
  /\ sock = IdleSocket
  /\ \E m \in Datagrams, c \in BOOLEAN, v \in BOOLEAN, at \in {"client", "server"} :
       fn = [op |-> "dispatch", msg |-> m, clientOn |-> c, serverOn |-> v,
             at |-> at, hops |-> 0, out |-> "none"]

NextDispatch ==
  \/ DispatchClient
  \/ DispatchServer

\* the receiving thread keeps running
LiveDispatch == InitDispatch /\ [][NextDispatch]_vars /\ WF_vars(NextDispatch)

\* C26: the dispatch of a datagram ends, and the datagram is handed from one
\* mode to the other at most once
C26_DispatchTerminates ==
  /\ [](fn.op = "dispatch" => fn.hops <= 1)
  /\ <>(fn.op = "dispatch" /\ fn.at = "done")

\* ------------------------------------------------ one bit for each Sequence
\* the stored Sequence with the id
StoredWith(S, id) == S.sequences[FindSequence(S, id)]

\* reach after n timeouts
RECURSIVE ShiftZeros(_, _)
ShiftZeros(r, n) == IF n = 0 THEN r ELSE ShiftZeros(ShiftReach(r, 0), n - 1)

\* C27: while the worker runs, reach changes only when Sequences leave the
\* store, by one bit for each of them: a 1 for the Sequence a response has
\* completed in time, a 0 for every Sequence that has timed out; a Sequence
\* enters the store once, with the sequence ID of the worker, which moves on
C27_OneBitPerSequence ==
  [][~ResetStep =>
       \E left \in {StoredIDs(srv) \ StoredIDs(srv')} :
         /\ Len(srv.sequences) - Len(srv'.sequences) \in {Cardinality(left), 0 - 1}
         /\ left = {} => srv'.reach = srv.reach
         /\ left # {} =>
              IF \A id \in left : timedOut(StoredWith(srv, id))
              THEN srv'.reach = ShiftZeros(srv.reach, Cardinality(left))
              ELSE /\ Cardinality(left) = 1
                   /\ srv'.reach = ShiftReach(srv.reach, 1)
         /\ \A id \in StoredIDs(srv') \ StoredIDs(srv) :
              /\ left = {}
              /\ id = worker.sequenceID
              /\ worker'.sequenceID = id + 1]_vars

\* the first Sequence was completed, the second has timed out; the store is
\* empty
C27_Witness ==
  /\ worker.running
  /\ worker.pc = "top"
  /\ worker.sequenceID = 2
  /\ hv.txFailed = {}
  /\ srv.sequences = << >>
  /\ srv.reach = 2

\* --------------------------------------------- one adjustment for a result
\* C28: finalize after a successful adjustment clears the adjustment flag of
\* the selected server; the flag is set again only by the calculate() that
\* follows the insert of a newly completed sequence; and adjust goes on past
\* initAdj only with the flag set. So a result is applied by at most one
\* successful adjustment
C28_OncePerResult ==
  [][/\ (client.pc = "finalize1" /\ client'.pc # "finalize1") => ~calc'.adjustment
     /\ (~calc.adjustment /\ calc'.adjustment) =>
          \E t \in RxThreads : rx[t].pc = "calculate" /\ rx'[t].pc = "state"
     /\ (client.pc = "adjust" /\ client'.pc = "adjRead") => hasAdjustment(calc)
     /\ (client.pc = "adjFreq" /\ client'.pc \notin {"adjFreq", "finalize1"}) =>
          hv'.fail = "this"]_vars

\* a successful adjustment has been finalized: the calculation is valid, its
\* window is full and it has no adjustment
C28_Witness ==
  /\ client.pc = "finalize2"
  /\ client.sel = <<1>>
  /\ pid.freqCalls = 1
  /\ calc.valid
  /\ ~calc.adjustment
  /\ fullyLoaded(calc, cfg.calcSize)

\* ------------------------------------------------------ the locks of the workers
\* The four kinds of lock: Inventory::_mutex, ServerMode::_mutex,
\* Server::_mutex and Calculation::_mutex. An operation is written as the
\* sequence of lock and unlock calls it makes; "x" is an exclusive and "s" a
\* shared acquisition.
Locks == {"inventory", "serverMode", "server", "calculation"}

LockThreads == {"clientMode", "worker", "listener", "serverMode", "inventory"}

Acquire(l, m) == [a |-> "lock", l |-> l, m |-> m]

Release(l) == [a |-> "unlock", l |-> l, m |-> "x"]

\* a lock held for the length of a scope, around the calls of that scope
Scoped(l, m, inner) == <<Acquire(l, m)>> \o inner \o <<Release(l)>>

\* Calculation::reset
CalculationReset == Scoped("calculation", "x", << >>)

\* faulty variant of Calculation::remove: reset() is called before the unlock
CalculationRemoveLocked(needsReset) ==
  Scoped("calculation", "x", IF needsReset THEN CalculationReset ELSE << >>)

\* Calculation::remove: unlocks before it calls reset()
CalculationRemove(needsReset) ==
  Scoped("calculation", "x", << >>) \o (IF needsReset THEN CalculationReset ELSE << >>)

\* Server::onSequenceTimeout, called with Server::_mutex held
onSequenceTimeoutLocks(reachZero, remove, needsReset) ==
  (IF reachZero THEN CalculationReset ELSE << >>)
    \o (IF remove THEN CalculationRemove(needsReset) ELSE << >>)

\* Server::onSequenceComplete, called with Server::_mutex held: insert,
\* calculate, fullyLoaded and, when fully loaded, delay, offset and drift
onSequenceCompleteLocks(handedOn, full) ==
  IF ~handedOn THEN << >>
  ELSE Scoped("calculation", "x", << >>) \o Scoped("calculation", "x", << >>)
         \o Scoped("calculation", "s", << >>)
         \o (IF full THEN Scoped("calculation", "s", << >>) ELSE << >>)

\* what a call under Server::_mutex does for one Sequence
SequenceOutcomes ==
  {<< >>}
    \cup {onSequenceTimeoutLocks(u, r, n) : u \in BOOLEAN, r \in BOOLEAN, n \in BOOLEAN}
    \cup {onSequenceCompleteLocks(TRUE, f) : f \in BOOLEAN}

\* Server::processMessage
processMessageLocks == {Scoped("server", "x", inner) : inner \in SequenceOutcomes}

\* Server::checkSequenceTimeouts
checkSequenceTimeoutsLocks ==
  {Scoped("server", "x", inner) :
     inner \in {<< >>} \cup {onSequenceTimeoutLocks(u, r, n) :
                               u \in BOOLEAN, r \in BOOLEAN, n \in BOOLEAN}}

\* Server::resetState
resetStateLocks == CalculationReset \o Scoped("server", "x", << >>)

\* Inventory::recv up to the select() call
recvLocks == Scoped("inventory", "x", << >>)

\* ServerMode::onMsgReceived from the lock_guard on: obtainRequest, and for a
\* complete Request processRequest with hasAddress, getInterfacePTPClockID
\* and one or two calls of send
serverModeLocks ==
  {Scoped("serverMode", "x", inner) :
     inner \in {<< >>,
                Scoped("inventory", "s", << >>),
                Scoped("inventory", "s", << >>) \o Scoped("inventory", "x", << >>),
                Scoped("inventory", "s", << >>) \o Scoped("inventory", "s", << >>)
                  \o Scoped("inventory", "x", << >>) \o Scoped("inventory", "x", << >>)}}

\* a datagram taken by recv and handed to the mode (or by the mode to the
\* other mode): no lock is held when onMsgReceived is called
receiveLocks ==
  {recvLocks \o h : h \in {<< >>} \cup processMessageLocks \cup serverModeLocks}

\* ClientMode::performAdjustments: prepare, select, adjust and finalize take
\* one lock at a time
performAdjustmentsLocks ==
  Scoped("inventory", "s", << >>) \o Scoped("server", "s", << >>)
    \o Scoped("calculation", "s", << >>) \o Scoped("server", "x", << >>)
    \o Scoped("calculation", "s", << >>) \o Scoped("calculation", "x", << >>)

\* Server::printState: clockName first, then the shared lock of the Server
\* around valid, delay and offset of the Calculation
printStateLocks ==
  Scoped("calculation", "s", << >>)
    \o Scoped("server", "s", Scoped("calculation", "s", << >>)
                               \o Scoped("calculation", "s", << >>))

\* the worker besides its sweep: resetState, the queries of the inventory,
\* setClock, send and addSequence
workerLocks ==
  {resetStateLocks \o Scoped("inventory", "s", << >>) \o Scoped("server", "x", << >>),
   Scoped("inventory", "x", << >>) \o Scoped("server", "x", << >>)}

\* the operations of each thread
ThreadOps(t) ==
  CASE t = "clientMode" -> {performAdjustmentsLocks, printStateLocks} \cup receiveLocks
    [] t = "worker" -> workerLocks \cup checkSequenceTimeoutsLocks
    [] t = "listener" -> receiveLocks
    [] t = "serverMode" -> {Scoped("serverMode", "x", << >>)}
    [] OTHER -> {Scoped("inventory", "x", << >>)}

\* the locks a thread holds
HeldBy(F, t) == {F.held[t][i].l : i \in 1..Len(F.held[t])}

\* std::shared_mutex and std::mutex: an exclusive acquisition needs the lock
\* free, a shared one needs it free of an exclusive owner
Grantable(F, t, s) ==
  \A u \in LockThreads \ {t} :
    \A i \in 1..Len(F.held[u]) :
      F.held[u][i].l = s.l => (s.m = "s" /\ F.held[u][i].m = "s")

\* the thread is at a lock() that cannot return now
Waiting(F, t) ==
  /\ F.todo[t] # << >>
  /\ Head(F.todo[t]).a = "lock"
  /\ \/ t \in F.stuck
     \/ ~Grantable(F, t, Head(F.todo[t]))

\* the threads that keep thread t from its lock
Blockers(F, t) ==
  (IF t \in F.stuck THEN {t} ELSE {})
    \cup {u \in LockThreads \ {t} :
            \E i \in 1..Len(F.held[u]) :
              /\ F.held[u][i].l = Head(F.todo[t]).l
              /\ ~(Head(F.todo[t]).m = "s" /\ F.held[u][i].m = "s")}

Remove1(q, l) ==
  LET i == CHOOSE j \in 1..Len(q) : q[j].l = l /\ \A k \in (j + 1)..Len(q) : q[k].l # l
  IN  SubSeq(q, 1, i - 1) \o SubSeq(q, i + 1, Len(q))

\* a thread starts one of its operations
LockBegin ==
  /\ fn.op = "locks"
  /\ \E t \in LockThreads :
       /\ fn.todo[t] = << >>
       /\ \E s \in ThreadOps(t) : fn' = [fn EXCEPT !.todo[t] = s]
  /\ UNCHANGED notFn

\* lock(): acquiring a lock the thread owns already is undefined; the call
\* then either never returns or returns with the lock taken once more
LockAcquire ==
  /\ fn.op = "locks"
  /\ \E t \in LockThreads \ fn.stuck :
       /\ fn.todo[t] # << >>
       /\ Head(fn.todo[t]).a = "lock"
       /\ LET s == Head(fn.todo[t])
              again == s.l \in HeldBy(fn, t)
          IN  /\ Grantable(fn, t, s)
              /\ \E returns \in (IF again THEN BOOLEAN ELSE {TRUE}) :
                   fn' = [fn EXCEPT !.todo[t] = IF returns THEN Tail(@) ELSE @,
                                    !.held[t] = IF returns THEN Append(@, [l |-> s.l, m |-> s.m])
                                                ELSE @,
                                    !.stuck = IF returns THEN @ ELSE @ \cup {t},
                                    !.again = @ \/ again]
  /\ UNCHANGED notFn

\* unlock()
LockRelease ==
  /\ fn.op = "locks"
  /\ \E t \in LockThreads :
       /\ fn.todo[t] # << >>
       /\ Head(fn.todo[t]).a = "unlock"
       /\ fn' = [fn EXCEPT !.todo[t] = Tail(@),
                           !.held[t] = Remove1(@, Head(fn.todo[t]).l)]
  /\ UNCHANGED notFn

InitLocks ==
  /\ ClientSideOff
  /\ smode = IdleServerMode
  /\ thr = NoThreads
  /\ sock = IdleSocket
  /\ fn = [op |-> "locks", todo |-> [t \in LockThreads |-> << >>],
           held |-> [t \in LockThreads |-> << >>], stuck |-> {}, again |-> FALSE]

NextLocks == LockBegin \/ LockAcquire \/ LockRelease

SpecLocks == InitLocks /\ [][NextLocks]_vars

\* the threads of D that wait for locks held only inside D, after n rounds of
\* leaving out those with a blocker outside
RECURSIVE DeadlockedAmong(_, _, _)
DeadlockedAmong(F, D, n) ==
  IF n = 0 THEN D
  ELSE DeadlockedAmong(F, {t \in LockThreads : t \in D /\ Blockers(F, t) \subseteq D}, n - 1)

\* the largest set of threads each waiting for a lock that only threads of the
\* set hold: these threads wait for ever
Deadlocked(F) ==
  DeadlockedAmong(F, {t \in LockThreads : Waiting(F, t)}, Cardinality(LockThreads))

\* the pairs (outer, inner) of locks that may be held together
LockOrder == {<<"server", "calculation">>, <<"serverMode", "inventory">>}

\* C29: the workers cannot deadlock: a thread holds two locks only in the
\* order Server before Calculation or server mode before inventory, no thread
\* acquires a lock it holds, and there is no set of threads each waiting for
\* a lock that only threads of the set hold
C29_NoDeadlock ==
  fn.op = "locks" =>
    /\ \A t \in LockThreads :
         \A i, j \in 1..Len(fn.held[t]) :
           i < j => <<fn.held[t][i].l, fn.held[t][j].l>> \in LockOrder
    /\ ~fn.again
    /\ Deadlocked(fn) = {}

\* the RX path holds the lock of the Server and of the Calculation while the
\* worker waits for the Server, and the listener holds the lock of the server
\* mode and of the inventory while two other workers wait for these
C29_Witness ==
  /\ fn.op = "locks"
  /\ HeldBy(fn, "clientMode") = {"server", "calculation"}
  /\ Waiting(fn, "worker")
  /\ HeldBy(fn, "listener") = {"serverMode", "inventory"}
  /\ Waiting(fn, "serverMode")
  /\ Waiting(fn, "inventory")

\* --------------------------------------------- leaving the state Initializing
\* thread t ends Server::onSequenceComplete with the update of the state
StateUpdated(t) == rx[t].pc = "state" /\ rx'[t].pc = "idle"

\* thread t has processed a response that completed a Sequence, and the
\* filters have kept the Sequence: onSequenceComplete returns after them
KeptByFilters(t) ==
  /\ rx[t].pc = "idle"
  /\ rx' = rx
  /\ net'.inflight # net.inflight
  /\ Len(srv'.sequences) = Len(srv.sequences) - 1
  /\ srv'.reach % 2 = 1

\* C30 as stated: the first complete sequence takes a Server from Initializing
\* to Collecting, whatever the filters and the size of the calculation
C30_AsStated ==
  [][\A t \in RxThreads :
       /\ (srv.state = initializing /\ srv.reach = 1 /\ StateUpdated(t)) =>
            srv'.state = collecting
       /\ (srv.state = initializing /\ srv.reach = 0 /\ KeptByFilters(t)) =>
            srv'.state = collecting]_vars

\* C30: a complete sequence takes a Server from Initializing to Collecting if
\* the filters hand a sequence on and the calculation is not fully loaded with
\* it; to Ready if the calculation is fully loaded with it; and leaves the
\* Server in Initializing if the filters keep the sequence
C30_CollectingWhenHandedOn ==
  [][\A t \in RxThreads :
       /\ (srv.state = initializing /\ StateUpdated(t)) =>
            srv'.state = (IF fullyLoaded(calc, cfg.calcSize) THEN ready ELSE collecting)
       /\ (srv.state = initializing /\ KeptByFilters(t)) =>
            srv'.state = initializing]_vars

\* the first complete sequence has been processed: it is the only one in a
\* calculation of size two, and the Server is Collecting
C30_Witness ==
  /\ srv.state = collecting
  /\ srv.reach = 1
  /\ cfg.calcSize = 2
  /\ Len(calc.seqs) = 1
  /\ \A t \in RxThreads : rx[t].pc = "idle"

\* ------------------------------------------------- the marks of a selection
\* the group chosen by the truechimer detection of a select on servers S
ChosenGroup(S) == detectTruechimers(S, Survivors(S))

\* a step that is a select which reaches the truechimer detection
DetectionReached ==
  /\ fn.op = "select"
  /\ fn'.act = "select"
  /\ ~NoNewAdjustment(fn.servers, Survivors(fn.servers))

\* the marks of the servers that went through the truechimer detection
MarksOfDetection ==
  \A i \in 1..NumServers :
    /\ InSeq(fn'.last, i) => fn'.servers[i].state = selected
    /\ (InSeq(ChosenGroup(fn.servers), i) /\ ~InSeq(fn'.last, i))
         => fn'.servers[i].state = candidate
    /\ (InSeq(Survivors(fn.servers), i) /\ ~InSeq(ChosenGroup(fn.servers), i))
         => fn'.servers[i].state = falseticker

\* C31 as stated: after a select that reaches the truechimer detection the
\* returned servers are selected, the others of the chosen group candidates,
\* the other pre-filtered servers falsetickers, and a ready server that did
\* not reach the detection still is ready
C31_AsStated ==
  [][DetectionReached =>
       /\ MarksOfDetection
       /\ \A i \in 1..NumServers :
            (~InSeq(Survivors(fn.servers), i) /\ fn.servers[i].state = ready)
               => fn'.servers[i].state = ready]_vars

\* C31: after a select that reaches the truechimer detection the returned
\* servers are selected, the others of the chosen group candidates and the
\* other pre-filtered servers falsetickers; a server dropped by the pre-filter
\* (noSelect, or delay above the threshold) is a falseticker, and a server the
\* pre-filter did not look at (state below ready, or another clock) keeps its
\* state
C31_MarksOfSelection ==
  [][DetectionReached =>
       /\ MarksOfDetection
       /\ \A i \in 1..NumServers :
            LET x == fn.servers[i]
                looked == x.state >= ready /\ x.v.clock = CLOCK_REALTIME
                dropped == x.noSelect \/ Abs(x.v.delay) > SelDelayThreshold
            IN /\ (looked /\ dropped) => fn'.servers[i].state = falseticker
               /\ ~looked => fn'.servers[i].state = x.state]_vars

\* a select has gone through the truechimer detection: it has returned a
\* server, left another of the group a candidate, found a falseticker outside
\* the group and has dropped the server with noSelect
C31_Witness ==
  /\ fn.op = "select"
  /\ fn.act = "select"
  /\ Len(fn.last) = 1
  /\ fn.servers[NumServers].noSelect
  /\ fn.servers[NumServers].state = falseticker
  /\ fn.servers[NumServers].v.hasAdj
  /\ Abs(fn.servers[NumServers].v.delay) <= SelDelayThreshold
  /\ \E i \in 1..NumServers : fn.servers[i].state = selected
  /\ \E i \in 1..NumServers : fn.servers[i].state = candidate

\* ----------------------------------------- sequences of different timestamp levels
\* the timestamp levels a finished Sequence can have
WindowLevels == {"usr", "so", "hw"}

\* a finished Sequence of the given level
LevelSequence(n, dly, lv) ==
  [t1 |-> n + 1, off |-> 0, dly |-> dly, level |-> lv]

\* faulty variant of Calculation::insert: the window is not cleared for a
\* Sequence of another level
CalcInsertMixed(c, s, size) == [CalcInsert(c, s, size) EXCEPT !.level = s.level]

\* Calculation::insert with Sequences of any level: a window whose newest
\* Sequence has another level is cleared first
CalcInsertLevel(c, s, size) ==
  [CalcInsert(IF Len(c.seqs) > 0 /\ c.seqs[Len(c.seqs)].level # s.level
              THEN clearLocked(c) ELSE c, s, size) EXCEPT !.level = s.level]

\* Filter::insert with Sequences of any level
FilterInsertLevel(f, s, size) ==
  FilterInsert(IF Len(f) > 0 /\ f[Len(f)].level # s.level THEN << >> ELSE f, s, size)

RECURSIVE InsertAllLevels(_, _, _)
InsertAllLevels(c, seqs, size) ==
  IF seqs = << >> THEN c
  ELSE InsertAllLevels(CalcInsertLevel(c, Head(seqs), size), Tail(seqs), size)

\* Server::onSequenceComplete for a Sequence of level lv: the filter, if there
\* is one, and the inserts into the calculation; cleared tells whether the
\* buffer the Sequence went into first held Sequences of another level
LevelComplete ==
  /\ fn.op = "levels"
  /\ fn.n < MaxInserts
  /\ \E lv \in WindowLevels, dly \in CalcDelays :
       LET s == LevelSequence(fn.n, dly, lv)
           g == FilterInsertLevel(fn.filt, s, fn.filterSize)
           out == IF fn.filterSize = 0 THEN <<s>>
                  ELSE LuckyPacketFilter(g, fn.filterSize, fn.filterPick)
       IN fn' = [fn EXCEPT !.n = @ + 1,
                           !.filt = IF fn.filterSize = 0 \/ FilterFull(g, fn.filterSize)
                                    THEN << >> ELSE g,
                           !.c = InsertAllLevels(@, out, fn.size),
                           !.cleared = LET q == IF fn.filterSize = 0 THEN fn.c.seqs
                                                ELSE fn.filt
                                       IN Len(q) > 0 /\ q[Len(q)].level # lv]
  /\ UNCHANGED notFn

\* Server::onSequenceTimeout: the filters are cleared if they hold Sequences
\* and the last four Sequences have timed out; otherwise the oldest Sequence
\* leaves the window
LevelTimeout ==
  /\ fn.op = "levels"
  /\ \E fourth \in BOOLEAN :
       IF fourth /\ fn.filt # << >>
       THEN fn' = [fn EXCEPT !.filt = << >>, !.cleared = FALSE]
       ELSE fn' = [fn EXCEPT !.c = CalcRemove(@), !.cleared = FALSE]
  /\ UNCHANGED notFn

InitLevels ==
  /\ ClientSideOff
  /\ smode = IdleServerMode
  /\ thr = NoThreads
  /\ sock = IdleSocket
  /\ \E size \in {2, 3}, fs \in {0, 2} :
       fn = [op |-> "levels", size |-> size, filterSize |-> fs, filterPick |-> 2,
             filt |-> << >>, c |-> EmptyCalc, n |-> 0, cleared |-> FALSE]

NextLevels == LevelComplete \/ LevelTimeout

SpecLevels == InitLevels /\ [][NextLevels]_vars

\* the sequences of q all have one timestamp level
OneLevel(q) == \A i, j \in 1..Len(q) : q[i].level = q[j].level

\* C33: the Sequences of a calculation window have one timestamp level, and so
\* have those of a filter buffer; the level of the calculation is that of its
\* Sequences
C33_OneLevel ==
  fn.op = "levels" =>
    /\ OneLevel(fn.c.seqs)
    /\ OneLevel(fn.filt)
    /\ fn.c.seqs # << >> => fn.c.level = fn.c.seqs[1].level

\* a window of two Sequences was cleared by the insert of a Sequence of
\* another level: it holds this Sequence only
C33_Witness ==
  /\ fn.op = "levels"
  /\ fn.filterSize = 0
  /\ fn.cleared
  /\ fn.n = 3
  /\ Len(fn.c.seqs) = 1
  /\ fn.c.seqs[1].t1 = 3
  /\ fn.c.level = "hw"
  /\ ~fn.c.prevSeqValid

\* ------------------------------------------------ the level of a TX timestamp
\* C34: the level transmitTimestamp returns is never higher than the level the
\* caller of Inventory::send requested
C34_AchievedLevel ==
  sock.pc = "returned" => sock.level <= sock.requested

\* ------------------------------------------- a timeout with filters configured
\* a step in which Sequences have timed out and the calculation has lost
\* Sequences although it was not reset
TimeoutRemoves ==
  /\ ~ResetStep
  /\ Len(srv'.sequences) < Len(srv.sequences)
  /\ srv'.reach % 2 = 0
  /\ srv'.reach # 0
  /\ Len(calc'.seqs) < Len(calc.seqs)

\* C35: a timeout removes the oldest Sequence from the calculation only if no
\* filters are configured or the filters are empty
C35_RemoveOnlyUnfiltered ==
  [][TimeoutRemoves => (cfg.filterSize = 0 \/ srv.filt = << >>)]_vars

\* --------------------------------------------- the lucky packet filter on its own
\* the sizes and picks of the filter configurations
LuckySizes == 1..3

\* the mean path delays of the Sequences handed to the filter
LuckyDelays == {0 - 2, 0 - 1, 0, 1, 2}

\* the filter loop of Server::onSequenceComplete for one lucky packet filter:
\* Filter::insert and, if the buffer is full, LuckyPacket::filter; full is the
\* buffer the filter ran on and out what it handed on
LuckyComplete ==
  /\ fn.op = "lucky"
  /\ fn.n < MaxInserts
  /\ \E dly \in LuckyDelays :
       LET g == FilterInsert(fn.filt, LevelSequence(fn.n, dly, "usr"), fn.filterSize)
           st == FilterStage(fn.filt, LevelSequence(fn.n, dly, "usr"),
                             [filterSize |-> fn.filterSize, filterPick |-> fn.filterPick])
       IN fn' = [fn EXCEPT !.n = @ + 1,
                           !.filt = st.filt,
                           !.drained = FilterFull(g, fn.filterSize),
                           !.full = IF FilterFull(g, fn.filterSize) THEN g ELSE << >>,
                           !.out = st.out]
  /\ UNCHANGED notFn

\* Server::onSequenceTimeout with the last four Sequences timed out: the
\* filter is cleared
LuckyClear ==
  /\ fn.op = "lucky"
  /\ fn.filt # << >>
  /\ fn' = [fn EXCEPT !.filt = << >>, !.drained = FALSE, !.full = << >>, !.out = << >>]
  /\ UNCHANGED notFn

InitLucky ==
  /\ ClientSideOff
  /\ smode = IdleServerMode
  /\ thr = NoThreads
  /\ sock = IdleSocket
  /\ \E size \in LuckySizes, pick \in LuckySizes :
       fn = [op |-> "lucky", filterSize |-> size, filterPick |-> pick,
             filt |-> << >>, n |-> 0, drained |-> FALSE, full |-> << >>, out |-> << >>]

NextLucky == LuckyComplete \/ LuckyClear

SpecLucky == InitLucky /\ [][NextLucky]_vars

\* the output of a drain is taken from the buffer, the smaller absolute delay
\* first and of equal absolute delays the earlier Sequence first, and no
\* Sequence left behind would have had to come before one of the output
LuckyOrder(full, out) ==
  /\ \A i \in 1..Len(out) : \E k \in 1..Len(full) : full[k] = out[i]
  /\ \A i, j \in 1..Len(out) :
       i < j => \/ Abs(out[i].dly) < Abs(out[j].dly)
                \/ Abs(out[i].dly) = Abs(out[j].dly) /\ out[i].t1 < out[j].t1
  /\ \A k \in 1..Len(full) :
       (\A i \in 1..Len(out) : out[i] # full[k]) =>
         \A i \in 1..Len(out) :
           \/ Abs(out[i].dly) < Abs(full[k].dly)
           \/ Abs(out[i].dly) = Abs(full[k].dly) /\ out[i].t1 < full[k].t1

\* C36 as stated: a drain of a full buffer hands on exactly pick Sequences
C36_AsStated ==
  (fn.op = "lucky" /\ fn.drained) =>
    /\ Len(fn.out) = fn.filterPick
    /\ LuckyOrder(fn.full, fn.out)
    /\ fn.filt = << >>

\* C36: a drain of a full buffer hands on the pick Sequences of the smallest
\* absolute mean path delay, or all of them if the buffer holds fewer than
\* pick, in ascending order of the absolute delay and the earlier inserted
\* first among equals, and leaves the buffer empty
C36_LuckyDrain ==
  (fn.op = "lucky" /\ fn.drained) =>
    /\ Len(fn.out) = (IF fn.filterPick < Len(fn.full) THEN fn.filterPick ELSE Len(fn.full))
    /\ Len(fn.full) = fn.filterSize
    /\ LuckyOrder(fn.full, fn.out)
    /\ fn.filt = << >>

\* a buffer of three Sequences with delays 1, -1 and 0 was drained with pick 2:
\* the third and the first Sequence were handed on, in this order
C36_Witness ==
  /\ fn.op = "lucky"
  /\ fn.drained
  /\ fn.filterSize = 3
  /\ fn.filterPick = 2
  /\ Len(fn.full) = 3
  /\ fn.full[1].dly = 1
  /\ fn.full[2].dly = 0 - 1
  /\ fn.full[3].dly = 0
  /\ Len(fn.out) = 2
  /\ fn.out[1] = fn.full[3]
  /\ fn.out[2] = fn.full[1]
  /\ fn.filt = << >>

\* ------------------------------------------- a two-step request and its response
\* The Requests of the server mode as above, and one two-step request under
\* observation: pair is "none" before its first message, "first" after it,
\* "both" after its second message and "late" if the second message has not
\* come within RequestTimeout seconds; since is the time since the first
\* message, clean tells that the store was empty when it arrived, lost that
\* processRequest found no interface or could not send, resp counts the
\* responses sent since the first message

\* ServerMode::onMsgReceived: the Request obtained for the message is
\* complete, processRequest is called
reqProcessed(F, m) ==
  IF F.store # << >>
  THEN ~reqTimedOut(F.store[1]) /\ reqComplete(reqMerge(F.store[1], m))
  ELSE reqComplete(reqMerge(NewRequest(F.next), m))

\* the state of the server mode after a message of the observed request
PairReceived(F, m, hasAddress, sent) ==
  [onReqReceived(F, m, hasAddress) EXCEPT
     !.resp = IF reqProcessed(F, m) /\ hasAddress /\ sent /\ @ < 2 THEN @ + 1 ELSE @,
     !.lost = @ \/ (reqProcessed(F, m) /\ ~(hasAddress /\ sent))]

\* the two messages of a two-step request, the Request TLV in the Follow Up
PairMessage(type) == [type |-> type, twoStep |-> TRUE, tlv |-> (type = "followUp")]

\* a message of another request sequence of the same client and sequence ID
\* arrives before the observed request
PairEarlier ==
  /\ fn.op = "pairs"
  /\ fn.pair = "none"
  /\ \E m \in ReqMessages, hasAddress \in BOOLEAN :
       /\ fn.store = << >> => fn.next <= MaxRequests
       /\ fn' = onReqReceived(fn, m, hasAddress)
  /\ UNCHANGED notFn

\* the first message of the observed request arrives, the Sync or the Follow Up
PairFirst ==
  /\ fn.op = "pairs"
  /\ fn.pair = "none"
  /\ \E type \in {"sync", "followUp"}, hasAddress \in BOOLEAN, sent \in BOOLEAN :
       /\ fn.store = << >> => fn.next <= MaxRequests
       /\ fn' = [PairReceived(fn, PairMessage(type), hasAddress, sent) EXCEPT
                   !.pair = "first", !.first = type, !.since = 0,
                   !.clean = (fn.store = << >>)]
  /\ UNCHANGED notFn

\* the other message of the observed request arrives
PairSecond ==
  /\ fn.op = "pairs"
  /\ fn.pair = "first"
  /\ \E hasAddress \in BOOLEAN, sent \in BOOLEAN :
       /\ fn.store = << >> => fn.next <= MaxRequests
       /\ fn' = [PairReceived(fn, PairMessage(IF fn.first = "sync" THEN "followUp" ELSE "sync"),
                              hasAddress, sent) EXCEPT !.pair = "both"]
  /\ UNCHANGED notFn

\* a second passes
PairTick ==
  /\ fn.op = "pairs"
  /\ fn' = [fn EXCEPT !.sweepDue = TRUE,
                      !.store = [i \in 1..Len(@) |->
                                   [@[i] EXCEPT !.age = IF @ > RequestTimeout THEN @ ELSE @ + 1]],
                      !.since = IF fn.pair = "first" /\ @ <= RequestTimeout THEN @ + 1 ELSE @,
                      !.pair = IF @ = "first" /\ fn.since >= RequestTimeout THEN "late" ELSE @]
  /\ UNCHANGED notFn

\* ServerMode::threadFunc: once per second checkRequestTimeouts
PairSweep ==
  /\ fn.op = "pairs"
  /\ fn.sweepDue
  /\ fn' = [checkRequestTimeouts(fn) EXCEPT !.sweepDue = FALSE]
  /\ UNCHANGED notFn

InitPairs ==
  /\ ClientSideOff
  /\ smode = IdleServerMode
  /\ thr = NoThreads
  /\ sock = IdleSocket
  /\ fn = [op |-> "pairs", store |-> << >>, live |-> {}, next |-> 1, sweepDue |-> FALSE,
           pair |-> "none", first |-> "sync", since |-> 0, clean |-> FALSE,
           lost |-> FALSE, resp |-> 0]

NextPairs ==
  \/ PairEarlier
  \/ PairFirst
  \/ PairSecond
  \/ PairTick
  \/ PairSweep

SpecPairs == InitPairs /\ [][NextPairs]_vars

\* no Request of the store is complete
NoneComplete == \A i \in 1..Len(fn.store) : ~reqComplete(fn.store[i])

FractionBits == 16

IntervalBits == 24

Pow2(n) == 2 ^ n

\* x >> n of a signed integer
ShiftRight(x, n) == IF x >= 0 THEN x \div Pow2(n) ELSE 0 - ((Pow2(n) - 1 - x) \div Pow2(n))

\* PTP2TimeInterval::nanoseconds: the shifted value is masked to the bits of
\* the nanoseconds, which leaves no negative value for the branch that extends
\* the sign
nanoseconds(scaled) ==
  LET mask == Pow2(IntervalBits - FractionBits)
      ns == ShiftRight(scaled, FractionBits) % mask
  IN IF ns < 0 THEN ((ns % mask) - mask) + 1 ELSE ns

\* the nanoseconds and the fractions of the correction fields looked at
IntervalNanoseconds == (0 - 20)..20

IntervalFractions == {0, 1, 32768, 65535}

\* nanoseconds() is called on a correction field
IntervalConvert ==
  /\ fn.op = "interval"
  /\ fn.pc = "field"
  /\ fn' = [fn EXCEPT !.pc = "converted", !.ns = nanoseconds(fn.scaled)]
  /\ UNCHANGED notFn

InitInterval ==
  /\ ClientSideOff
  /\ smode = IdleServerMode
  /\ thr = NoThreads
  /\ sock = IdleSocket
  /\ \E n \in IntervalNanoseconds, f \in IntervalFractions :
       fn = [op |-> "interval", pc |-> "field", scaled |-> n * Pow2(FractionBits) + f, ns |-> 0]

NextInterval == IntervalConvert

SpecInterval == InitInterval /\ [][NextInterval]_vars

\* C38: the nanoseconds of a correction field are the field without its
\* fraction bits, negative for a negative field
C38_SignExtended ==
  (fn.op = "interval" /\ fn.pc = "converted") =>
    /\ fn.ns = ShiftRight(fn.scaled, FractionBits)
    /\ fn.scaled < 0 => fn.ns < 0

\* ------------------------------------------------ the sockets of an Interface
\* Interface::_socks and the address families the interface has addresses of.
\* An entry of the cache is a Socket [null, family, level, port] or the null
\* pointer; touched tells that a null entry has been dereferenced, crashed that
\* the process has ended by it
MaxSocks == 3

SockFamilies == {"inet", "inet6"}

SockLevels == {lvInvalid, lvUser, lvHardware}

SockPorts == {319, 320}

NullSock == [null |-> TRUE, family |-> "none", level |-> lvInvalid, port |-> 0]

\* Socket::matches
SockMatches(s, family, level, port) ==
  IF family # s.family \/ level > s.level THEN FALSE ELSE port = s.port

\* the search loop of Interface::sock from entry i on: a Socket that matches
\* ends it; matches called on a null pointer is undefined, the process ends,
\* or the call returns true and the null pointer is returned, or it returns
\* false and the search goes on
RECURSIVE SockSearch(_, _, _, _, _)
SockSearch(q, i, family, level, port) ==
  IF i > Len(q) THEN {[res |-> "miss", touched |-> FALSE]}
  ELSE IF q[i].null
       THEN {[res |-> "crashed", touched |-> TRUE], [res |-> "found", touched |-> TRUE]}
            \cup {[w EXCEPT !.touched = TRUE] : w \in SockSearch(q, i + 1, family, level, port)}
  ELSE IF SockMatches(q[i], family, level, port)
       THEN {[res |-> "found", touched |-> FALSE]}
  ELSE SockSearch(q, i + 1, family, level, port)

\* Interface::sock: the search, and after a miss on an interface with an
\* address of the family a new Socket, which is replaced by the null pointer
\* if it is not valid; the pointer is appended to the cache in both cases
SockLookup ==
  /\ fn.op = "socks"
  /\ ~fn.crashed
  /\ \E family \in SockFamilies, level \in SockLevels, port \in SockPorts, opens \in BOOLEAN :
       \E w \in SockSearch(fn.socks, 1, family, level, port) :
         /\ (w.res = "miss" /\ family \in fn.addrs) => Len(fn.socks) < MaxSocks
         /\ fn' = [fn EXCEPT
                     !.touched = @ \/ w.touched,
                     !.crashed = (w.res = "crashed"),
                     !.socks = IF w.res = "miss" /\ family \in fn.addrs
                               THEN Append(@, IF opens
                                              THEN [null |-> FALSE, family |-> family,
                                                    level |-> level, port |-> port]
                                              ELSE NullSock)
                               ELSE @]
  /\ UNCHANGED notFn

\* Interface::eraseIPAddr for the only address of a family: the Sockets of
\* the family are deleted; family() called on a null pointer is undefined, the
\* process ends, or the null pointers are taken for Sockets of the family and
\* erased, or they are left in the cache
SockEraseIPAddr ==
  /\ fn.op = "socks"
  /\ ~fn.crashed
  /\ \E family \in fn.addrs, ub \in {"crashed", "erased", "kept"} :
       LET hasNull == \E i \in 1..Len(fn.socks) : fn.socks[i].null
       IN fn' = [fn EXCEPT
                   !.addrs = @ \ {family},
                   !.touched = @ \/ hasNull,
                   !.crashed = hasNull /\ ub = "crashed",
                   !.socks = SelectSeq(@, LAMBDA s : IF s.null THEN ub # "erased"
                                                    ELSE s.family # family)]
  /\ UNCHANGED notFn

\* Interface::addIPAddr
SockAddIPAddr ==
  /\ fn.op = "socks"
  /\ ~fn.crashed
  /\ \E family \in SockFamilies \ fn.addrs : fn' = [fn EXCEPT !.addrs = @ \cup {family}]
  /\ UNCHANGED notFn

\* Interface::setProperties with new properties: clearSocks
SockClear ==
  /\ fn.op = "socks"
  /\ ~fn.crashed
  /\ fn.socks # << >>
  /\ fn' = [fn EXCEPT !.socks = << >>]
  /\ UNCHANGED notFn

InitSocks ==
  /\ ClientSideOff
  /\ smode = IdleServerMode
  /\ thr = NoThreads
  /\ sock = IdleSocket
  /\ fn = [op |-> "socks", socks |-> << >>, addrs |-> {}, touched |-> FALSE, crashed |-> FALSE]

NextSocks ==
  \/ SockLookup
  \/ SockEraseIPAddr
  \/ SockAddIPAddr
  \/ SockClear

SpecSocks == InitSocks /\ [][NextSocks]_vars

\* C39: no entry of the socket cache of an Interface is a null pointer, and
\* no lookup or erasure has touched one
C39_CacheValid ==
  fn.op = "socks" =>
    /\ \A i \in 1..Len(fn.socks) : ~fn.socks[i].null
    /\ ~fn.touched

\* ------------------------------------------- responses that come twice
\* One Sequence of the store with its timestamps (0: empty), corrections and
\* TLV data, and the responses that come for it, any number of times. stored:
\* the Sequence is in the store; rcv flips with every response received, type
\* is the type of the last one, ignored tells that it was dropped as a
\* duplicate
DupTimestamps == 0..2

DupMessages ==
  [type : {"sync", "followUp"}, twoStep : BOOLEAN, timestamp : DupTimestamps,
   correction : {0, 1}, rxLevel : {lvInvalid, lvUser}, rxTimestamp : {1, 2},
   tlv : BOOLEAN, t2 : {1, 2}, error : {0, 1}]

\* Sequence::merge
SeqMerge(s, m) ==
  LET a == IF m.type = "sync" /\ m.rxLevel # lvInvalid
           THEN [s EXCEPT !.t3 = IF ~m.twoStep THEN m.timestamp ELSE @,
                          !.level = m.rxLevel,
                          !.t4 = m.rxTimestamp,
                          !.syncCorrection = m.correction]
           ELSE [s EXCEPT !.t3 = m.timestamp, !.followUpCorrection = m.correction]
  IN IF m.type = "sync" /\ m.rxLevel = lvInvalid THEN s
     ELSE IF m.tlv THEN [a EXCEPT !.t2 = m.t2, !.error = m.error]
     ELSE a

\* faulty variant of the duplicate check of Server::processMessage: only a
\* Sync Response is checked
SeqDuplicateSync(s, m) == m.type = "sync" /\ s.t4 # 0

\* Server::processMessage: the response is a Sync and the Sequence has T4, or
\* a Follow Up and the Sequence has T3
SeqDuplicate(s, m) ==
  \/ m.type = "sync" /\ s.t4 # 0
  \/ m.type = "followUp" /\ s.t3 # 0

\* Server::processMessage for a response with the sequence ID of the Sequence
DupReceive ==
  /\ fn.op = "duplicates"
  /\ fn.stored
  /\ \E m \in DupMessages :
       LET mg == SeqMerge(fn.seq, m)
           F == [fn EXCEPT !.rcv = ~@, !.type = m.type, !.ignored = FALSE]
       IN fn' = IF fn.age > MsTimeout
                THEN [F EXCEPT !.stored = FALSE, !.reach = ShiftReach(@, 0)]
                ELSE IF SeqDuplicate(fn.seq, m) THEN [F EXCEPT !.ignored = TRUE]
                ELSE IF mg.t2 # 0 /\ mg.t3 # 0 /\ mg.t4 # 0
                THEN [F EXCEPT !.seq = mg, !.stored = FALSE, !.reach = ShiftReach(@, 1)]
                ELSE [F EXCEPT !.seq = mg]
  /\ UNCHANGED notFn

\* time passes
DupTick ==
  /\ fn.op = "duplicates"
  /\ fn.age <= MsTimeout
  /\ fn' = [fn EXCEPT !.age = @ + 1]
  /\ UNCHANGED notFn

InitDuplicates ==
  /\ ClientSideOff
  /\ smode = IdleServerMode
  /\ thr = NoThreads
  /\ sock = IdleSocket
  /\ \E reach \in {0, 1, 65535} :
       fn = [op |-> "duplicates", stored |-> TRUE, reach |-> reach, age |-> 0,
             seq |-> [t2 |-> 0, t3 |-> 0, t4 |-> 0, level |-> lvInvalid,
                      syncCorrection |-> 0, followUpCorrection |-> 0, error |-> 0],
             rcv |-> FALSE, type |-> "sync", ignored |-> FALSE]

NextDuplicates == DupReceive \/ DupTick

SpecDuplicates == InitDuplicates /\ [][NextDuplicates]_vars

\* C40: a Sync Response for a stored Sequence that has not timed out and has
\* T4, and a Follow Up Response for one that has T3, leave the timestamps, the
\* corrections and the TLV data of the Sequence as they are, the Sequence in
\* the store and reach unchanged
C40_DuplicateIgnored ==
  [][(/\ fn.op = "duplicates"
      /\ fn'.rcv # fn.rcv
      /\ fn.age <= MsTimeout
      /\ \/ fn'.type = "sync" /\ fn.seq.t4 # 0
         \/ fn'.type = "followUp" /\ fn.seq.t3 # 0)
     => (fn'.seq = fn.seq /\ fn'.stored /\ fn'.reach = fn.reach)]_vars

\* a Follow Up Response has come for a Sequence that has T3 and neither T2 nor
\* T4 and was dropped
C40_Witness ==
  /\ fn.op = "duplicates"
  /\ fn.stored
  /\ fn.ignored
  /\ fn.type = "followUp"
  /\ fn.seq.t3 = 1
  /\ fn.seq.t2 = 0
  /\ fn.seq.t4 = 0
  /\ fn.reach = 65535

====
